---- MODULE Spec2Model ----
(***************************************************************************)
(* The multi-agent task pipeline of llamacpp_assist:                       *)
(*   Planner -> Resolver -> Selector -> Executor -> Summariser             *)
(* driven by MultiAgentConversationEntity.async_process, and the tool loop *)
(* _call_llm_with_tools of the single-agent LlamaCppConversationEntity.    *)
(*                                                                         *)
(* Conventions of the model                                                *)
(*   - a Python dict with an open key set is a function over strings       *)
(*     ("k" \in DOMAIN d  models  "k" in d);                               *)
(*   - a task is a record of its known keys; a key the code reads with     *)
(*     task.get(k, default) and that is missing holds that default, a key  *)
(*     read with task.get(k) and missing holds None; the remaining keys    *)
(*     of the attribute bag are the dict task.extra;                       *)
(*   - text on which the code does string operations (lower, in, split,    *)
(*     strip, capitalize) is a sequence of one-character strings;          *)
(*   - an entity_id is an atomic string; the registry keeps its part       *)
(*     before the dot as prefix, so that                                   *)
(*     entity_id.startswith(f"{domain}.") is prefix = domain.              *)
(*   - a datetime is a record of a day number and a time of day; its       *)
(*     isoformat() is a string taken from a table, and the clock does not  *)
(*     advance during one call of the Resolver.                            *)
(***************************************************************************)
EXTENDS Integers, Sequences, FiniteSets, TLC

\* ------------------------------------------------------------------ bounds

\* Longest task list the Planner LLM returns in one utterance.
MaxTasks ==
    2

\* Longest selected_entities list the Selector LLM returns.
MaxSel ==
    2

\* ------------------------------------------------------------------ text

None ==
    "None"

EmptyDict ==
    [k \in {} |-> None]

UpperChars ==
    <<"A", "B", "C", "D", "E", "F", "G", "H", "I", "J", "K", "L", "M", "N",
      "O", "P", "Q", "R", "S", "T", "U", "V", "W", "X", "Y", "Z", "Ä", "Ö", "Ü">>

LowerChars ==
    <<"a", "b", "c", "d", "e", "f", "g", "h", "i", "j", "k", "l", "m", "n",
      "o", "p", "q", "r", "s", "t", "u", "v", "w", "x", "y", "z", "ä", "ö", "ü">>

\* the lower-case letter of each upper-case letter
ToLower ==
    [c \in {UpperChars[i] : i \in 1..Len(UpperChars)} |->
        LowerChars[CHOOSE i \in 1..Len(UpperChars) : UpperChars[i] = c]]

\* the upper-case letter of each lower-case letter
ToUpper ==
    [c \in {LowerChars[i] : i \in 1..Len(LowerChars)} |->
        UpperChars[CHOOSE i \in 1..Len(LowerChars) : LowerChars[i] = c]]

\* str.lower() on one character
LowerChar(c) ==
    IF c \in DOMAIN ToLower THEN ToLower[c] ELSE c

\* str.upper() on one character
UpperChar(c) ==
    IF c \in DOMAIN ToUpper THEN ToUpper[c] ELSE c

\* str.lower()
Lower(s) ==
    [i \in 1..Len(s) |-> LowerChar(s[i])]

\* needle in hay (Python substring test)
Contains(hay, needle) ==
    \E p \in 0..(Len(hay) - Len(needle)) :
        \A i \in 1..Len(needle) : hay[p + i] = needle[i]

\* " ".join(parts)
RECURSIVE JoinSpace(_)
JoinSpace(parts) ==
    IF Len(parts) = 0 THEN <<>>
    ELSE IF Len(parts) = 1 THEN parts[1]
    ELSE parts[1] \o <<" ">> \o JoinSpace(Tail(parts))

\* [x for x in s if keep(x)] : the subsequence of s of the elements in keep
RECURSIVE FilterSeq(_, _)
FilterSeq(s, keep) ==
    IF Len(s) = 0 THEN <<>>
    ELSE (IF s[1] \in keep THEN <<s[1]>> ELSE <<>>) \o FilterSeq(Tail(s), keep)

\* the sequences over S of length at most n
SeqsUpTo(S, n) ==
    UNION {[1..k -> S] : k \in 0..n}

Range(s) ==
    {s[i] : i \in 1..Len(s)}

TxtRegallampe ==
    <<"R", "e", "g", "a", "l", "l", "a", "m", "p", "e">>
TxtSchranklampe ==
    <<"S", "c", "h", "r", "a", "n", "k", "l", "a", "m", "p", "e">>
TxtRegal ==
    <<"R", "e", "g", "a", "l">>
TxtKueche ==
    <<"K", "ü", "c", "h", "e">>
TxtRegalSteckdose ==
    <<"R", "e", "g", "a", "l", " ", "S", "t", "e", "c", "k", "d", "o", "s", "e">>
TxtKaeseUndWein ==
    <<"K", "ä", "s", "e", " ", "u", "n", "d", " ", "W", "e", "i", "n">>
TxtMilkMilk ==
    <<"m", "i", "l", "k", ",", " ", "m", "i", "l", "k">>

\* texts of dates, durations and shopping lists as the Planner LLM may write them
TxtToday ==
    <<"t", "o", "d", "a", "y">>
TxtHeute ==
    <<"h", "e", "u", "t", "e">>
TxtTomorrow ==
    <<"t", "o", "m", "o", "r", "r", "o", "w">>
TxtTomorrowCap ==
    <<" ", "T", "o", "m", "o", "r", "r", "o", "w">>
TxtMorgen ==
    <<"m", "o", "r", "g", "e", "n">>
TxtGestern ==
    <<"g", "e", "s", "t", "e", "r", "n">>
TxtIsoDate ==
    <<"2", "0", "2", "6", "-", "1", "1", "-", "0", "5">>
TxtNextWeek ==
    <<"n", "e", "x", "t", " ", "w", "e", "e", "k">>
Txt5Minutes ==
    <<"5", " ", "m", "i", "n", "u", "t", "e", "s">>
Txt90Sekunden ==
    <<"9", "0", " ", "S", "e", "k", "u", "n", "d", "e", "n">>
Txt2Stunden ==
    <<"2", " ", "S", "t", "u", "n", "d", "e", "n">>
Txt1Hour ==
    <<"i", "n", " ", "1", " ", "h", "o", "u", "r">>
Txt10 ==
    <<"1", "0">>
Txt2Days ==
    <<"2", " ", "d", "a", "y", "s">>
TxtSoon ==
    <<"s", "o", "o", "n">>
TxtKaeseUndUndWein ==
    <<"K", "ä", "s", "e", " ", "u", "n", "d", " ", "u", "n", "d", " ", "W", "e", "i", "n">>
TxtBrotEier ==
    <<"B", "r", "o", "t", " ", "&", " ", "E", "i", "e", "r", " ", "A", "N", "D", " ", " ", "m", "i", "l", "c", "h", ",", ",">>
TxtOnlySeparators ==
    <<" ", ",", " ", ",", " ">>
TxtTasks ==
    <<"t", "a", "s", "k", "s">>
TxtResponse ==
    <<"r", "e", "s", "p", "o", "n", "s", "e">>
TxtId ==
    <<"i", "d">>
TxtStatus ==
    <<"s", "t", "a", "t", "u", "s">>
TxtLichtAn ==
    <<"l", "i", "c", "h", "t", " ", "a", "n">>
TxtNoResponse ==
    <<"n", "o", " ", "r", "e", "s", "p", "o", "n", "s", "e">>


TxtHome ==
    <<"H", "o", "m", "e">>

\* the text of an entity_id, for a state without a friendly_name attribute
EntityIdText(eid) ==
    CASE eid = "calendar.work" -> <<"c", "a", "l", "e", "n", "d", "a", "r", ".", "w", "o", "r", "k">>
      [] OTHER -> <<>>

\* ------------------------------------------------------------------ platform

StLightRegal ==
    [entity_id |-> "light.regallampe", prefix |-> "light", state |-> "off",
     attributes |-> [friendly_name |-> TxtRegallampe]]

StLightSchrank ==
    [entity_id |-> "light.schranklampe", prefix |-> "light", state |-> "on",
     attributes |-> [friendly_name |-> TxtSchranklampe]]

StSwitchRegal ==
    [entity_id |-> "switch.regal_steckdose", prefix |-> "switch", state |-> "off",
     attributes |-> [friendly_name |-> TxtRegalSteckdose]]

StCalHome ==
    [entity_id |-> "calendar.home", prefix |-> "calendar", state |-> "off",
     attributes |-> [friendly_name |-> TxtHome]]

StCalWork ==
    [entity_id |-> "calendar.work", prefix |-> "calendar", state |-> "off",
     attributes |-> EmptyDict]

\* The registries hass.states.async_all() may hold during one utterance.
LiveConfigs ==
    { <<StLightRegal, StLightSchrank, StSwitchRegal, StCalHome, StCalWork>>,
      <<StLightRegal, StLightSchrank>>,
      <<StLightRegal, StCalHome>> }

\* An identifier no registry holds: what an LLM invents.
InventedLight ==
    "light.invented"

InventedCalendar ==
    "calendar.invented"

\* state.attributes.get("friendly_name", state.entity_id)
FriendlyName(st) ==
    IF "friendly_name" \in DOMAIN st.attributes
    THEN st.attributes.friendly_name
    ELSE EntityIdText(st.entity_id)

\* ------------------------------------------------------------------ task model

TaskStatus ==
    {"pending", "awaiting_selection", "ready_for_execution", "executed", "failed"}

TaskType ==
    {"device_control", "shopping_add", "shopping_query", "shopping_remove",
     "calendar_query", "calendar_create", "memory_read", "memory_write"}

\* A task as the Planner LLM writes it: the keys it left out hold None (scalars)
\* or the default the code reads them with (lists, dicts).
LLMTask(type, status) ==
    [id |-> None, type |-> type, status |-> status,
     action |-> None, domain |-> None, raw_targets |-> <<>>, params |-> EmptyDict,
     raw_items |-> <<>>,
     available_entities |-> <<>>, service_data |-> EmptyDict,
     selected_entities |-> <<>>,
     available_calendars |-> <<>>, selected_calendar |-> None,
     items |-> <<>>,
     extra |-> EmptyDict]

DeviceTask(status, action, domain, raw_targets, params) ==
    [LLMTask("device_control", status) EXCEPT
        !.action = action, !.domain = domain,
        !.raw_targets = raw_targets, !.params = params]

\* What the Planner LLM may put on a status key (None: no status key).
LLMStatuses ==
    TaskStatus \cup {None}

\* The tasks the Planner LLM may emit.
PlannerTasks ==
    \* device control, as the prompt asks for it
    { DeviceTask(None, "turn_on", "light", <<TxtRegallampe, TxtSchranklampe>>, EmptyDict),
      DeviceTask(None, "toggle", "light", <<TxtRegallampe>>, EmptyDict),
      DeviceTask(None, "turn_on", None, <<TxtRegal>>, [brightness |-> 128]),
      DeviceTask(None, "turn_off", "switch", <<TxtKueche>>, EmptyDict),
      DeviceTask(None, "turn_on", "light", <<>>, EmptyDict) }
    \cup
    \* identifiers the Planner LLM invented, inside params or as a selection
    { DeviceTask(None, "turn_on", "light", <<TxtRegallampe>>, [entity_id |-> InventedLight]),
      [DeviceTask("ready_for_execution", "turn_on", "light", <<TxtSchranklampe>>, EmptyDict)
          EXCEPT !.selected_entities = <<InventedLight>>,
                 !.service_data = [domain |-> "light", service |-> "turn_on",
                                   data |-> EmptyDict]],
      [LLMTask("calendar_create", None) EXCEPT !.selected_calendar = InventedCalendar] }
    \cup
    \* every task family, with every status the LLM may have written
    { DeviceTask(s, "turn_on", "light", <<TxtRegallampe>>, EmptyDict) : s \in LLMStatuses }
    \cup
    { [LLMTask("shopping_add", s) EXCEPT !.raw_items = TxtKaeseUndWein] : s \in LLMStatuses }
    \cup
    { [LLMTask("shopping_add", None) EXCEPT !.raw_items = TxtMilkMilk] }
    \cup
    { LLMTask(t, s) : t \in {"calendar_create", "shopping_query"}, s \in LLMStatuses }
    \cup
    { LLMTask(t, None) : t \in {"timer_start", "shopping_remove", "memory_read",
                                "memory_write", "dance", None} }
    \cup
    \* the example of the prompt: what is on the calendar tomorrow
    { [LLMTask("calendar_query", None) EXCEPT !.extra = [start |-> TxtTomorrow]] }
    \cup
    \* a task that carries an id of the LLM's
    { [LLMTask("shopping_query", None) EXCEPT !.id = "t2"] }

\* A JSON value that is not an object, as an element of a tasks list: a number, null,
\* true or a string (with its text).
NonDictElements ==
    { [json |-> "number"], [json |-> "null"], [json |-> "bool"],
      [json |-> "string", text |-> TxtLichtAn] }

\* isinstance(task, dict) on an element of the tasks list
IsDict(task) ==
    "json" \notin DOMAIN task

\* What llm_client.parse_json_response hands to the Planner: it raised (timeout,
\* HTTP error, invalid JSON), or json.loads returned a number, null, true, a string
\* (obj: its text), an array (obj: its elements, strings) or an object.
PlannerLLMResults ==
    { [kind |-> "raise", obj |-> EmptyDict],
      [kind |-> "number", obj |-> EmptyDict],
      [kind |-> "null", obj |-> EmptyDict],
      [kind |-> "bool", obj |-> EmptyDict],
      [kind |-> "string", obj |-> TxtTasks],
      [kind |-> "string", obj |-> TxtNoResponse],
      [kind |-> "string", obj |-> TxtLichtAn],
      [kind |-> "array", obj |-> <<>>],
      [kind |-> "array", obj |-> <<"tasks">>],
      [kind |-> "array", obj |-> <<"response">>],
      [kind |-> "array", obj |-> <<"licht an">>],
      [kind |-> "object", obj |-> EmptyDict],
      [kind |-> "object", obj |-> [response |-> "Guten Morgen!"]],
      [kind |-> "object", obj |-> [tasks |-> [is_list |-> FALSE, elems |-> <<>>]]] }
    \cup
    { [kind |-> "object", obj |-> [tasks |-> [is_list |-> TRUE, elems |-> ts]]] :
        ts \in SeqsUpTo(PlannerTasks, MaxTasks) }
    \cup
    { [kind |-> "object", obj |-> [tasks |-> [is_list |-> TRUE, elems |-> <<e>>]]] :
        e \in NonDictElements }
    \cup
    { [kind |-> "object", obj |-> [tasks |-> [is_list |-> TRUE, elems |-> <<t>>],
                                   response |-> "Erledigt."]] :
        t \in {LLMTask("shopping_query", None)} }

\* ------------------------------------------------------------------ Planner

PlannerApologyRephrase ==
    "I'm sorry, I had trouble understanding that. Could you rephrase?"

PlannerApologyProcessing ==
    "I'm sorry, I had trouble processing that request."

NotSureHowToHelp ==
    "I'm not sure how to help with that."

\* f"t{i+1}" for the task at 0-based position i, 1-based position k = i + 1
TaskIdText(k) ==
    <<"t1", "t2", "t3", "t4", "t5", "t6">>[k]

\* The body of the loop of plan() raises on the element: the membership test
\* raises on a number, null or true, and task["id"] = ..., task["status"] = ...
\* raise on a string that lacks the substring.
ElementRaises(task) ==
    IF IsDict(task) THEN FALSE
    ELSE IF task.json # "string" THEN TRUE
    ELSE ~Contains(task.text, TxtId) \/ ~Contains(task.text, TxtStatus)

\* The loop of plan() over the tasks: a missing id, a missing status.
PlannerPostValidate(tasks) ==
    [k \in 1..Len(tasks) |->
        IF ~IsDict(tasks[k]) THEN tasks[k]
        ELSE [tasks[k] EXCEPT
                !.id = IF tasks[k].id = None THEN TaskIdText(k) ELSE tasks[k].id,
                !.status = IF tasks[k].status = None THEN "pending"
                           ELSE tasks[k].status]]

\* `key in result` on what json.loads returned, where the test does not raise: a key
\* of an object, an element of an array, a substring of a string
KeyInResult(key, llm) ==
    IF llm.kind = "object" THEN key \in DOMAIN llm.obj
    ELSE IF llm.kind = "array" THEN key \in Range(llm.obj)
    ELSE IF llm.kind = "string"
         THEN Contains(llm.obj, IF key = "tasks" THEN TxtTasks ELSE TxtResponse)
    ELSE FALSE

\* plan() raises: `"tasks" in result` raises on a number, null or true;
\* result["tasks"] and result["response"] raise on an array or a string that passed
\* the membership test; the loop over the tasks raises on an element.
PlanRaises(llm) ==
    IF llm.kind = "raise" THEN FALSE
    ELSE IF llm.kind \in {"number", "null", "bool"} THEN TRUE
    ELSE IF llm.kind \in {"array", "string"}
         THEN KeyInResult("tasks", llm) \/ KeyInResult("response", llm)
    ELSE /\ KeyInResult("tasks", llm)
         /\ llm.obj.tasks.is_list
         /\ \E k \in 1..Len(llm.obj.tasks.elems) : ElementRaises(llm.obj.tasks.elems[k])

\* a plan() that answers a failed LLM call with an empty task list
PlanEmptyOnFailure(llm) ==
    IF llm.kind = "raise" THEN [tasks |-> <<>>]
    ELSE IF llm.kind = "object" /\ "tasks" \in DOMAIN llm.obj THEN
        IF ~llm.obj.tasks.is_list
        THEN [response |-> PlannerApologyProcessing]
        ELSE [tasks |-> PlannerPostValidate(llm.obj.tasks.elems)]
    ELSE IF llm.kind = "object" /\ "response" \in DOMAIN llm.obj
    THEN [response |-> llm.obj.response]
    ELSE [response |-> NotSureHowToHelp]

\* PlannerAgent.plan: {"tasks": [...]} or {"response": "..."}
Plan(llm) ==
    IF llm.kind = "raise" THEN [response |-> PlannerApologyRephrase]
    ELSE IF llm.kind = "object" /\ "tasks" \in DOMAIN llm.obj THEN
        IF ~llm.obj.tasks.is_list
        THEN [response |-> PlannerApologyProcessing]
        ELSE [tasks |-> PlannerPostValidate(llm.obj.tasks.elems)]
    ELSE IF llm.kind = "object" /\ "response" \in DOMAIN llm.obj
    THEN [response |-> llm.obj.response]
    ELSE [response |-> NotSureHowToHelp]

\* {**a, **b}
DictMerge(a, b) ==
    [k \in DOMAIN a \cup DOMAIN b |-> IF k \in DOMAIN b THEN b[k] ELSE a[k]]

\* d.get(key, default)
DictGet(d, key, default) ==
    IF key \in DOMAIN d THEN d[key] ELSE default

\* ------------------------------------------------------------------ Resolver

DomainKeywords ==
    <<
      [domain |-> "light", words |-> {
          <<"l", "a", "m", "p", "e">>,
          <<"l", "i", "c", "h", "t">>,
          <<"l", "i", "g", "h", "t">>}],
      [domain |-> "switch", words |-> {
          <<"s", "t", "e", "c", "k", "d", "o", "s", "e">>,
          <<"s", "c", "h", "a", "l", "t", "e", "r">>,
          <<"s", "w", "i", "t", "c", "h">>,
          <<"p", "l", "u", "g">>}],
      [domain |-> "climate", words |-> {
          <<"t", "h", "e", "r", "m", "o", "s", "t", "a", "t">>,
          <<"h", "e", "i", "z", "u", "n", "g">>,
          <<"h", "e", "a", "t", "i", "n", "g">>,
          <<"h", "v", "a", "c">>,
          <<"k", "l", "i", "m", "a">>}],
      [domain |-> "media_player", words |-> {
          <<"m", "u", "s", "i", "k">>,
          <<"m", "u", "s", "i", "c">>,
          <<"f", "e", "r", "n", "s", "e", "h", "e", "r">>,
          <<"t", "v">>,
          <<"l", "a", "u", "t", "s", "p", "r", "e", "c", "h", "e", "r">>,
          <<"s", "p", "e", "a", "k", "e", "r">>,
          <<"m", "e", "d", "i", "a">>,
          <<"p", "l", "a", "y", "e", "r">>,
          <<"r", "a", "d", "i", "o">>}],
      [domain |-> "cover", words |-> {
          <<"c", "o", "v", "e", "r">>,
          <<"b", "l", "i", "n", "d">>,
          <<"j", "a", "l", "o", "u", "s", "i", "e">>,
          <<"r", "o", "l", "l", "o">>,
          <<"v", "o", "r", "h", "a", "n", "g">>,
          <<"c", "u", "r", "t", "a", "i", "n">>}],
      [domain |-> "fan", words |-> {
          <<"f", "a", "n">>,
          <<"l", "ü", "f", "t", "e", "r">>,
          <<"v", "e", "n", "t", "i", "l", "a", "t", "o", "r">>}],
      [domain |-> "lock", words |-> {
          <<"l", "o", "c", "k">>,
          <<"s", "c", "h", "l", "o", "s", "s">>,
          <<"t", "ü", "r", "s", "c", "h", "l", "o", "s", "s">>}],
      [domain |-> "vacuum", words |-> {
          <<"v", "a", "c", "u", "u", "m">>,
          <<"s", "t", "a", "u", "b", "s", "a", "u", "g", "e", "r">>}],
      [domain |-> "timer", words |-> {
          <<"t", "i", "m", "e", "r">>,
          <<"c", "o", "u", "n", "t", "d", "o", "w", "n">>,
          <<"s", "t", "o", "p", "p", "u", "h", "r">>}]
    >>

\* _guess_domain: the first keyword row with a word inside the joined, lower-cased
\* targets; "light" when no row matches.
GuessDomain(targets) ==
    LET text == Lower(JoinSpace(targets))
        hit(r) == \E w \in DomainKeywords[r].words : Contains(text, w)
    IN IF \E r \in 1..Len(DomainKeywords) : hit(r)
       THEN DomainKeywords[CHOOSE r \in 1..Len(DomainKeywords) :
                hit(r) /\ \A q \in 1..(r - 1) : ~hit(q)].domain
       ELSE "light"

\* the states of the registry whose entity_id starts with prefix + "."
RECURSIVE StatesWithPrefix(_, _)
StatesWithPrefix(sts, prefix) ==
    IF Len(sts) = 0 THEN <<>>
    ELSE (IF sts[1].prefix = prefix THEN <<sts[1]>> ELSE <<>>)
         \o StatesWithPrefix(Tail(sts), prefix)

\* _resolve_device_control
ResolveDeviceControl(task, sts) ==
    LET domain == IF task.domain \notin {None, ""} THEN task.domain
                  ELSE GuessDomain(task.raw_targets)
        live == StatesWithPrefix(sts, domain)
        available == [i \in 1..Len(live) |->
                        [entity_id |-> live[i].entity_id,
                         friendly_name |-> FriendlyName(live[i]),
                         state |-> live[i].state,
                         domain |-> domain]]
        service_schema == EmptyDict
    IN [task EXCEPT !.available_entities = available,
                    !.extra = DictMerge(@, [service_schema |-> service_schema]),
                    !.domain = domain,
                    !.status = "awaiting_selection"]

\* \s of the regular expression, str.strip()
IsSpace(c) ==
    c \in {" ", "\t", "\n"}

\* the length of the whitespace run of s that starts at position p
RECURSIVE WsRun(_, _)
WsRun(s, p) ==
    IF p <= Len(s) /\ IsSpace(s[p]) THEN 1 + WsRun(s, p + 1) ELSE 0

\* The length of the match of  ,|\s+(?:und|and)\s+|\s+&\s+  (IGNORECASE) that
\* starts at position p of s; 0 when there is none.
SepLenAt(s, p) ==
    IF s[p] = "," THEN 1
    ELSE LET w == WsRun(s, p)
             q == p + w
         IN IF w = 0 THEN 0
            ELSE IF /\ q + 2 <= Len(s)
                    /\ Lower(SubSeq(s, q, q + 2)) \in {<<"u", "n", "d">>, <<"a", "n", "d">>}
                    /\ WsRun(s, q + 3) > 0
                 THEN w + 3 + WsRun(s, q + 3)
            ELSE IF q <= Len(s) /\ s[q] = "&" /\ WsRun(s, q + 1) > 0
                 THEN w + 1 + WsRun(s, q + 1)
            ELSE 0

\* re.split(pattern, s): split[p] is the list of the pieces of s from position p
\* on (the scan goes from left to right and resumes behind each match)
ReSplit(s) ==
    LET split[p \in 1..(Len(s) + 1)] ==
            IF p > Len(s) THEN << <<>> >>
            ELSE IF SepLenAt(s, p) > 0 THEN << <<>> >> \o split[p + SepLenAt(s, p)]
            ELSE [split[p + 1] EXCEPT ![1] = <<s[p]>> \o @]
    IN split[1]

\* str.strip()
RECURSIVE Strip(_)
Strip(s) ==
    IF Len(s) = 0 THEN s
    ELSE IF IsSpace(s[1]) THEN Strip(Tail(s))
    ELSE IF IsSpace(s[Len(s)]) THEN Strip(SubSeq(s, 1, Len(s) - 1))
    ELSE s

\* str.capitalize(): the first character upper-cased, the others lower-cased
Capitalize(s) ==
    [i \in 1..Len(s) |-> IF i = 1 THEN UpperChar(s[i]) ELSE LowerChar(s[i])]

\* item.strip() is not the empty string
NonEmpty(item) ==
    Strip(item) # <<>>

\* [item.strip().capitalize() for item in items if item.strip()]
StripCapitalizeAll(pieces) ==
    [i \in 1..Len(SelectSeq(pieces, NonEmpty)) |->
        Capitalize(Strip(SelectSeq(pieces, NonEmpty)[i]))]

SplitItems(raw_items) ==
    StripCapitalizeAll(ReSplit(raw_items))

\* _resolve_shopping_add
ResolveShoppingAdd(task) ==
    [task EXCEPT !.items = SplitItems(task.raw_items),
                 !.status = "ready_for_execution"]

\* ------------------------------------------------------------------ durations

Digits ==
    {"0", "1", "2", "3", "4", "5", "6", "7", "8", "9"}

\* int() of one digit
DigitValue ==
    [c \in Digits |-> CASE c = "0" -> 0 [] c = "1" -> 1 [] c = "2" -> 2 [] c = "3" -> 3
                        [] c = "4" -> 4 [] c = "5" -> 5 [] c = "6" -> 6 [] c = "7" -> 7
                        [] c = "8" -> 8 [] c = "9" -> 9]

\* the length of the run of digits of s that starts at position p
RECURSIVE DigitRun(_, _)
DigitRun(s, p) ==
    IF p <= Len(s) /\ s[p] \in Digits THEN 1 + DigitRun(s, p + 1) ELSE 0

\* int(match.group(1))
RECURSIVE IntOf(_)
IntOf(digits) ==
    IF digits = <<>> THEN 0
    ELSE 10 * IntOf(SubSeq(digits, 1, Len(digits) - 1)) + DigitValue[digits[Len(digits)]]

\* the alternatives of the unit group of the pattern, in the order it tries them
DurationUnits ==
    << <<"s", "e", "c", "o", "n", "d">>, <<"s", "e", "k", "u", "n", "d", "e">>,
       <<"m", "i", "n", "u", "t", "e">>, <<"m", "i", "n", "u", "t", "e", "n">>,
       <<"h", "o", "u", "r">>, <<"s", "t", "u", "n", "d", "e">>,
       <<"s", "t", "u", "n", "d", "e", "n">> >>

\* s[p:].startswith(prefix)
StartsWithAt(s, p, prefix) ==
    /\ p + Len(prefix) - 1 <= Len(s)
    /\ SubSeq(s, p, p + Len(prefix) - 1) = prefix

\* match.group(2): the first alternative that matches at position p, None when
\* the optional group matches nothing
UnitAt(s, p) ==
    LET hits == {k \in 1..Len(DurationUnits) : StartsWithAt(s, p, DurationUnits[k])}
    IN IF hits = {} THEN <<>>
       ELSE DurationUnits[CHOOSE k \in hits : \A j \in hits : k <= j]

\* re.search(r'(\d+)\s*(second|...|stunden)?', s): the search stops at the first
\* digit of s; the groups are the digit run there and the unit behind the
\* whitespace that follows it. found = FALSE: no match.
DurationMatch(s) ==
    LET firsts == {p \in 1..Len(s) : s[p] \in Digits}
    IN IF firsts = {} THEN [found |-> FALSE, number |-> 0, unit |-> <<>>]
       ELSE LET p == CHOOSE x \in firsts : \A y \in firsts : x <= y
                q == p + DigitRun(s, p)
            IN [found |-> TRUE,
                number |-> IntOf(SubSeq(s, p, q - 1)),
                unit |-> UnitAt(s, q + WsRun(s, q))]

DefaultDuration ==
    300

\* _parse_duration
ParseDuration(duration_str) ==
    IF duration_str = <<>> THEN DefaultDuration
    ELSE LET match == DurationMatch(Strip(Lower(duration_str)))
             unit == IF match.unit = <<>> THEN <<"m", "i", "n", "u", "t", "e">>
                     ELSE match.unit
         IN IF ~match.found THEN DefaultDuration
            ELSE IF \/ StartsWithAt(unit, 1, <<"s", "e", "c", "o", "n", "d">>)
                    \/ StartsWithAt(unit, 1, <<"s", "e", "k", "u", "n", "d", "e">>)
                 THEN match.number
            ELSE IF \/ StartsWithAt(unit, 1, <<"m", "i", "n", "u", "t", "e">>)
                    \/ StartsWithAt(unit, 1, <<"m", "i", "n", "u", "t", "e", "n">>)
                 THEN match.number * 60
            ELSE IF \/ StartsWithAt(unit, 1, <<"h", "o", "u", "r">>)
                    \/ StartsWithAt(unit, 1, <<"s", "t", "u", "n", "d", "e">>)
                 THEN match.number * 3600
            ELSE match.number * 60

\* _resolve_timer_start
ResolveTimerStart(task) ==
    [task EXCEPT
        !.extra = DictMerge(@, [duration_seconds |->
                                    ParseDuration(DictGet(task.extra, "duration", <<>>))]),
        !.status = "ready_for_execution"]

\* ------------------------------------------------------------------ dates

\* A datetime is a day (1 is 2026-11-01) and a time of day.
Midnight ==
    "00:00:00"
Afternoon ==
    "14:30:15"
OneOClock ==
    "01:00:00"
AfternoonLater ==
    "15:30:15"

\* datetime.now() during the utterance
Clock ==
    { [day |-> 2, tod |-> Afternoon], [day |-> 2, tod |-> Midnight] }

\* the date part of the isoformat() texts of the days 2026-11-01 to 2026-11-13
IsoDates ==
    <<"2026-11-01", "2026-11-02", "2026-11-03", "2026-11-04", "2026-11-05",
      "2026-11-06", "2026-11-07", "2026-11-08", "2026-11-09", "2026-11-10",
      "2026-11-11", "2026-11-12", "2026-11-13">>

\* the isoformat() texts of these days at the two times of day
IsoMidnights ==
    <<"2026-11-01T00:00:00", "2026-11-02T00:00:00", "2026-11-03T00:00:00",
      "2026-11-04T00:00:00", "2026-11-05T00:00:00", "2026-11-06T00:00:00",
      "2026-11-07T00:00:00", "2026-11-08T00:00:00", "2026-11-09T00:00:00",
      "2026-11-10T00:00:00", "2026-11-11T00:00:00", "2026-11-12T00:00:00",
      "2026-11-13T00:00:00">>
IsoAfternoons ==
    <<"2026-11-01T14:30:15", "2026-11-02T14:30:15", "2026-11-03T14:30:15",
      "2026-11-04T14:30:15", "2026-11-05T14:30:15", "2026-11-06T14:30:15",
      "2026-11-07T14:30:15", "2026-11-08T14:30:15", "2026-11-09T14:30:15",
      "2026-11-10T14:30:15", "2026-11-11T14:30:15", "2026-11-12T14:30:15",
      "2026-11-13T14:30:15">>

\* the isoformat() texts of the same days one hour after the two times of day
IsoOneOClocks ==
    [d \in DOMAIN IsoMidnights |-> IsoDates[d] \o "T01:00:00"]
IsoAfternoonsLater ==
    [d \in DOMAIN IsoMidnights |-> IsoDates[d] \o "T15:30:15"]

\* dt.isoformat()
IsoFormat(dt) ==
    IF dt.tod = Midnight THEN IsoMidnights[dt.day]
    ELSE IF dt.tod = Afternoon THEN IsoAfternoons[dt.day]
    ELSE IF dt.tod = OneOClock THEN IsoOneOClocks[dt.day]
    ELSE IsoAfternoonsLater[dt.day]

\* dt + timedelta(days=n)
PlusDays(dt, n) ==
    [dt EXCEPT !.day = @ + n]

\* dt.replace(hour=0, minute=0, second=0, microsecond=0)
AtMidnight(dt) ==
    [dt EXCEPT !.tod = Midnight]

\* datetime.fromisoformat(date_str); ok = FALSE: ValueError
FromIsoFormat(date_str) ==
    IF date_str = TxtIsoDate THEN [ok |-> TRUE, dt |-> [day |-> 5, tod |-> Midnight]]
    ELSE [ok |-> FALSE, dt |-> [day |-> 1, tod |-> Midnight]]

\* _parse_date
ParseDate(date_str, clock) ==
    IF date_str = <<>> THEN clock
    ELSE LET date_lower == Strip(Lower(date_str))
         IN IF date_lower \in {TxtToday, TxtHeute} THEN AtMidnight(clock)
            ELSE IF date_lower \in {TxtTomorrow, TxtMorgen}
                 THEN AtMidnight(PlusDays(clock, 1))
            ELSE IF date_lower \in {<<"y", "e", "s", "t", "e", "r", "d", "a", "y">>, TxtGestern}
                 THEN AtMidnight(PlusDays(clock, -1))
            ELSE IF FromIsoFormat(date_str).ok THEN FromIsoFormat(date_str).dt
            ELSE clock

\* task.get("start"), task.get("end"): a missing key reads as the empty text
TaskStart(task) ==
    DictGet(task.extra, "start", <<>>)
TaskEnd(task) ==
    DictGet(task.extra, "end", <<>>)

\* start_dt of _resolve_calendar_query
QueryStartDt(task, clock) ==
    IF TaskStart(task) # <<>> THEN ParseDate(TaskStart(task), clock) ELSE clock

\* end_dt of _resolve_calendar_query
QueryEndDt(task, clock) ==
    IF TaskStart(task) # <<>> /\ TaskEnd(task) # <<>> /\ TaskStart(task) = TaskEnd(task)
    THEN PlusDays(QueryStartDt(task, clock), 1)
    ELSE IF TaskEnd(task) # <<>> THEN ParseDate(TaskEnd(task), clock)
    ELSE PlusDays(QueryStartDt(task, clock), 7)

\* _resolve_calendar_query
ResolveCalendarQuery(task, clock) ==
    [task EXCEPT
        !.extra = DictMerge(@, [start_iso |-> IsoFormat(QueryStartDt(task, clock)),
                                end_iso |-> IsoFormat(QueryEndDt(task, clock))]),
        !.status = "ready_for_execution"]

\* the calendar.* states of the registry, as _resolve_calendar_create lists them
AvailableCalendars(sts) ==
    LET live == StatesWithPrefix(sts, "calendar")
    IN [i \in 1..Len(live) |->
            [entity_id |-> live[i].entity_id,
             friendly_name |-> FriendlyName(live[i])]]

\* _resolve_calendar_create: start_iso and end_iso (the end given, or one hour after
\* the start, which is at midnight or at the time of the clock), then the calendars
ResolveCalendarCreate(task, sts, clock) ==
    LET start_dt == IF TaskStart(task) # <<>> THEN ParseDate(TaskStart(task), clock)
                    ELSE clock
        end_dt == IF TaskEnd(task) # <<>> THEN ParseDate(TaskEnd(task), clock)
                  ELSE [start_dt EXCEPT
                          !.tod = IF @ = Midnight THEN OneOClock ELSE AfternoonLater]
        dated == [task EXCEPT
                    !.extra = DictMerge(@, [start_iso |-> IsoFormat(start_dt),
                                            end_iso |-> IsoFormat(end_dt)])]
    IN IF AvailableCalendars(sts) # <<>>
       THEN [dated EXCEPT !.available_calendars = AvailableCalendars(sts),
                          !.status = "awaiting_selection"]
       ELSE [dated EXCEPT !.status = "ready_for_execution"]

\* the body of the loop of resolve_tasks
ResolveTask(task, sts, clock) ==
    IF task.type = "device_control" THEN ResolveDeviceControl(task, sts)
    ELSE IF task.type = "timer_start" THEN ResolveTimerStart(task)
    ELSE IF task.type = "shopping_add" THEN ResolveShoppingAdd(task)
    ELSE IF task.type = "calendar_query" THEN ResolveCalendarQuery(task, clock)
    ELSE IF task.type = "calendar_create" THEN ResolveCalendarCreate(task, sts, clock)
    ELSE \* other types don't need resolution
         [task EXCEPT !.status = "ready_for_execution"]

\* TaskResolver.resolve_tasks
ResolveTasks(tasks, sts, clock) ==
    [i \in 1..Len(tasks) |-> ResolveTask(tasks[i], sts, clock)]

\* ------------------------------------------------------------------ Selector

\* What llm_client.parse_json_response hands to the Selector for one task: it
\* raised, or json.loads returned an array or an object. The object may lack
\* selected_entities, may name live and invented identifiers, and may carry a
\* service_data of its own.
SelectorIds ==
    {"light.regallampe", "light.schranklampe", InventedLight}

SelectorLLMResults ==
    { [kind |-> "raise", obj |-> EmptyDict],
      [kind |-> "array", obj |-> EmptyDict],
      [kind |-> "object", obj |-> EmptyDict] }
    \cup
    { [kind |-> "object", obj |-> [selected_entities |-> ids]] :
        ids \in SeqsUpTo(SelectorIds, MaxSel) }
    \cup
    { [kind |-> "object",
       obj |-> [selected_entities |-> <<id>>,
                service_data |-> [domain |-> "lock", service |-> "unlock",
                                  data |-> [entity_id |-> InventedLight]]]] :
        id \in SelectorIds }

\* action.lower(), on the spellings of an action the inputs hold
ActionLower(action) ==
    CASE action = "TURN_ON" -> "turn_on"
      [] action = "Turn_Off" -> "turn_off"
      [] action = "Toggle" -> "toggle"
      [] OTHER -> action

\* mapping.get(key, default) on a table given as a set of <<key, value>> pairs
MapGet(mapping, key, default) ==
    IF \E kv \in mapping : kv[1] = key
    THEN (CHOOSE kv \in mapping : kv[1] = key)[2]
    ELSE default

\* a mapping that knows the service toggle only
ActionToServiceToggle(action, domain) ==
    "toggle"

\* _action_to_service
ActionToService(action, domain) ==
    LET a == ActionLower(action)
    IN CASE domain = "climate" ->
              MapGet({<<"set_temperature", "set_temperature">>, <<"set_temp", "set_temperature">>,
                      <<"set_hvac_mode", "set_hvac_mode">>, <<"set_mode", "set_hvac_mode">>,
                      <<"turn_on", "turn_on">>, <<"turn_off", "turn_off">>},
                     a, "set_temperature")
         [] domain = "cover" ->
              MapGet({<<"open", "open_cover">>, <<"open_cover", "open_cover">>,
                      <<"close", "close_cover">>, <<"close_cover", "close_cover">>,
                      <<"stop", "stop_cover">>, <<"stop_cover", "stop_cover">>,
                      <<"toggle", "toggle">>},
                     a, "toggle")
         [] domain = "lock" ->
              MapGet({<<"lock", "lock">>, <<"unlock", "unlock">>, <<"open", "open">>},
                     a, "lock")
         [] domain = "media_player" ->
              MapGet({<<"play", "media_play">>, <<"media_play", "media_play">>,
                      <<"pause", "media_pause">>, <<"media_pause", "media_pause">>,
                      <<"stop", "media_stop">>, <<"media_stop", "media_stop">>,
                      <<"next", "media_next_track">>, <<"previous", "media_previous_track">>,
                      <<"volume_up", "volume_up">>, <<"volume_down", "volume_down">>,
                      <<"mute", "volume_mute">>,
                      <<"turn_on", "turn_on">>, <<"turn_off", "turn_off">>},
                     a, "media_play")
         [] domain = "fan" ->
              MapGet({<<"turn_on", "turn_on">>, <<"turn_off", "turn_off">>,
                      <<"toggle", "toggle">>, <<"set_speed", "set_percentage">>,
                      <<"set_percentage", "set_percentage">>},
                     a, "turn_on")
         [] domain = "vacuum" ->
              MapGet({<<"start", "start">>, <<"pause", "pause">>, <<"stop", "stop">>,
                      <<"return_to_base", "return_to_base">>, <<"clean_spot", "clean_spot">>,
                      <<"turn_on", "start">>, <<"turn_off", "return_to_base">>},
                     a, "start")
         [] domain \in {"light", "switch"} ->
              MapGet({<<"turn_on", "turn_on">>, <<"on", "turn_on">>,
                      <<"turn_off", "turn_off">>, <<"off", "turn_off">>,
                      <<"toggle", "toggle">>, <<"set", "turn_on">>},
                     a, "turn_on")
         [] OTHER ->
              MapGet({<<"turn_on", "turn_on">>, <<"turn_off", "turn_off">>,
                      <<"toggle", "toggle">>},
                     a, "turn_on")

\* the task-level keys _select_device_entities copies into the service parameters
ParamFields ==
    {"temperature", "target_temperature", "temp", "hvac_mode", "brightness",
     "color_temp", "position", "percentage", "speed", "volume_level",
     "media_content_id"}

\* dict(params) plus each ParamFields key of the task that params does not hold
MergeTaskParams(task) ==
    LET added == {f \in ParamFields : f \in DOMAIN task.extra /\ f \notin DOMAIN task.params}
    IN [k \in DOMAIN task.params \cup added |->
            IF k \in DOMAIN task.params THEN task.params[k] ELSE task.extra[k]]

\* the key renaming of _normalize_service_params
NormalizeKey(key) ==
    IF key \in {"target_temperature", "temp"} THEN "temperature" ELSE key

\* _normalize_service_params. The values of the numeric keys are numbers in the
\* inputs of this model, which the code leaves as they are (its conversions act on
\* str values only); no input holds two keys that are renamed to the same key.
NormalizeServiceParams(params, domain) ==
    [k \in {NormalizeKey(key) : key \in DOMAIN params} |->
        params[CHOOSE key \in DOMAIN params : NormalizeKey(key) = k]]

\* {e["entity_id"] for e in available_entities if e.get("entity_id")}
AvailableIds(task) ==
    {task.available_entities[i].entity_id : i \in 1..Len(task.available_entities)}

\* a filter that lets every proposed identifier through
HardFilterNone(raw_selected, available_ids) ==
    raw_selected

\* the hard filter: [eid for eid in raw_selected if eid in available_ids]
HardFilter(raw_selected, available_ids) ==
    FilterSeq(raw_selected, available_ids)

\* a name matching that takes every candidate
FallbackMatchAll(available_entities, raw_targets) ==
    [i \in 1..Len(available_entities) |-> available_entities[i].entity_id]

\* Local name matching: the candidates, in candidate order, whose lower-cased
\* friendly_name holds a lower-cased raw target.
RECURSIVE FallbackMatch(_, _)
FallbackMatch(available_entities, raw_targets) ==
    IF Len(available_entities) = 0 THEN <<>>
    ELSE LET entity == available_entities[1]
             friendly == Lower(entity.friendly_name)
             hit == \E i \in 1..Len(raw_targets) : Contains(friendly, Lower(raw_targets[i]))
         IN (IF hit THEN <<entity.entity_id>> ELSE <<>>)
            \o FallbackMatch(Tail(available_entities), raw_targets)

\* selection_result.get("selected_entities") or []
RawSelected(llm) ==
    IF "selected_entities" \in DOMAIN llm.obj THEN llm.obj.selected_entities ELSE <<>>

\* the selected_entities that _select_device_entities computes from an LLM result
SelectedEntities(task, llm) ==
    LET filtered == HardFilter(RawSelected(llm), AvailableIds(task))
    IN IF filtered = <<>> /\ task.available_entities # <<>> /\ task.raw_targets # <<>>
       THEN FallbackMatch(task.available_entities, task.raw_targets)
       ELSE filtered

\* the service_data that _select_device_entities builds from the task
ServiceData(task) ==
    LET action == IF task.action = None THEN "turn_on" ELSE task.action
        domain == IF task.domain = None THEN "light" ELSE task.domain
    IN [domain |-> domain,
        service |-> ActionToService(action, domain),
        data |-> NormalizeServiceParams(MergeTaskParams(task), domain)]

\* a selection that takes over the service_data of the LLM result, when it has one
SelectDeviceEntitiesTrustingLLM(task, llm) ==
    IF llm.kind = "raise"
    THEN [task EXCEPT !.selected_entities = <<>>,
                      !.service_data = EmptyDict,
                      !.status = "failed"]
    ELSE [task EXCEPT !.selected_entities = SelectedEntities(task, llm),
                      !.service_data = IF "service_data" \in DOMAIN llm.obj
                                       THEN llm.obj.service_data
                                       ELSE ServiceData(task),
                      !.status = "ready_for_execution"]

\* _select_device_entities, for an LLM call that raised or returned an object
SelectDeviceEntities(task, llm) ==
    IF llm.kind = "raise"
    THEN [task EXCEPT !.selected_entities = <<>>,
                      !.service_data = EmptyDict,
                      !.status = "failed"]
    ELSE [task EXCEPT !.selected_entities = SelectedEntities(task, llm),
                      !.service_data = ServiceData(task),
                      !.status = "ready_for_execution"]

\* a selection of the last calendar of the list
SelectCalendarLast(task) ==
    IF task.available_calendars = <<>>
    THEN [task EXCEPT !.selected_calendar = None, !.status = "ready_for_execution"]
    ELSE [task EXCEPT !.selected_calendar =
                          task.available_calendars[Len(task.available_calendars)].entity_id,
                      !.status = "ready_for_execution"]

\* _select_calendar
SelectCalendar(task) ==
    IF task.available_calendars = <<>>
    THEN [task EXCEPT !.selected_calendar = None, !.status = "ready_for_execution"]
    ELSE [task EXCEPT !.selected_calendar = task.available_calendars[1].entity_id,
                      !.status = "ready_for_execution"]

\* a loop body that asks the LLM for every task that awaits a selection
NeedsSelectorLLMAnyType(task) ==
    task.status = "awaiting_selection"

\* Does the body of the loop of select() call the LLM for this task?
NeedsSelectorLLM(task) ==
    task.status = "awaiting_selection" /\ task.type = "device_control"

\* a selection without a try around its LLM call
SelectRaisesOnLLMFailure(task, llm) ==
    NeedsSelectorLLM(task) /\ llm.kind \in {"array", "raise"}

\* selection_result.get(...) raises on a JSON array: outside the try of
\* _select_device_entities, so out of select()
SelectRaises(task, llm) ==
    NeedsSelectorLLM(task) /\ llm.kind = "array"

\* a loop body that does not look at the status of the task
SelectTaskAnyStatus(task, llm) ==
    IF task.type = "device_control" THEN SelectDeviceEntities(task, llm)
    ELSE IF task.type = "calendar_create" THEN SelectCalendar(task)
    ELSE [task EXCEPT !.status = "ready_for_execution"]

\* the body of the loop of select()
SelectTask(task, llm) ==
    IF task.status = "awaiting_selection" THEN
        IF task.type = "device_control" THEN SelectDeviceEntities(task, llm)
        ELSE IF task.type = "calendar_create" THEN SelectCalendar(task)
        ELSE [task EXCEPT !.status = "ready_for_execution"]
    ELSE task

\* ------------------------------------------------------------------ Executor

\* f"{domain}.{service}:{entity_id}". A service is a value of ActionToService and
\* an entity_id of the registry holds no ":", so the text determines the triple.
Signature(domain, service, entity_id) ==
    <<domain, service, entity_id>>

\* f"{domain}.{service}"
Operation(domain, service) ==
    <<domain, service>>

\* An error text is a tuple of the parts of its f-string.
\* str(err) of the exception a platform service call raises
ServiceErrorText ==
    <<"ServiceError">>

\* the data dict that _execute_device_control hands to hass.services.async_call
DeviceCallData(entity_id, extra_data) ==
    DictMerge([entity_id |-> entity_id], extra_data)

\* the task.get("id", "unknown") of the executor
TaskId(task) ==
    IF task.id = None THEN "unknown" ELSE task.id

DeviceResultDuplicate(task, domain, service, entity_id) ==
    [task_id |-> TaskId(task), task_type |-> "device_control",
     operation |-> Operation(domain, service), entity |-> entity_id,
     success |-> TRUE, skipped |-> "duplicate"]

DeviceResultSuccess(task, domain, service, entity_id) ==
    [task_id |-> TaskId(task), task_type |-> "device_control",
     operation |-> Operation(domain, service), entity |-> entity_id,
     success |-> TRUE]

DeviceResultFailure(task, domain, service, entity_id) ==
    [task_id |-> TaskId(task), task_type |-> "device_control",
     operation |-> Operation(domain, service), entity |-> entity_id,
     success |-> FALSE, error |-> ServiceErrorText]

\* a task without entities reported as done
DeviceResultNoEntitiesAsSuccess(task) ==
    [task_id |-> TaskId(task), task_type |-> "device_control", success |-> TRUE]

\* the result of a task whose selected_entities is empty
DeviceResultNoEntities(task) ==
    [task_id |-> TaskId(task), task_type |-> "device_control",
     success |-> FALSE, error |-> <<"No entities selected">>]

ShoppingAddResult(task, item, ok) ==
    IF ok
    THEN [task_id |-> TaskId(task), task_type |-> "shopping_add",
          operation |-> "shopping_add", item |-> item, success |-> TRUE]
    ELSE [task_id |-> TaskId(task), task_type |-> "shopping_add",
          operation |-> "shopping_add", item |-> item, success |-> FALSE,
          error |-> ServiceErrorText]

\* the service_data dict of _execute_calendar_create
CreateEventData(task) ==
    DictMerge(
        DictMerge([entity_id |-> task.selected_calendar,
                   summary |-> DictGet(task.extra, "summary", ""),
                   start_date_time |-> DictGet(task.extra, "start_iso", ""),
                   end_date_time |-> DictGet(task.extra, "end_iso", "")],
                  IF DictGet(task.extra, "description", None) \notin {None, ""}
                  THEN [description |-> task.extra["description"]]
                  ELSE EmptyDict),
        IF DictGet(task.extra, "location", None) \notin {None, ""}
        THEN [location |-> task.extra["location"]]
        ELSE EmptyDict)

CalendarCreateResult(task, ok) ==
    IF ok
    THEN [task_id |-> TaskId(task), task_type |-> "calendar_create",
          operation |-> "calendar_create", calendar |-> task.selected_calendar,
          summary |-> DictGet(task.extra, "summary", None),
          success |-> TRUE]
    ELSE [task_id |-> TaskId(task), task_type |-> "calendar_create",
          operation |-> "calendar_create", success |-> FALSE,
          error |-> ServiceErrorText]

CalendarCreateNoCalendar(task) ==
    [task_id |-> TaskId(task), task_type |-> "calendar_create",
     success |-> FALSE, error |-> <<"No calendar selected">>]

\* The events a calendar holds: an event is a dict, and a key it lacks is read
\* with the default "".
EvZahnarzt ==
    [summary |-> "Zahnarzt", start |-> "2026-11-02T09:00:00",
     end |-> "2026-11-02T10:00:00"]

EvKino ==
    [summary |-> "Kino", location |-> "Berlin"]

\* What the call of calendar.get_events with return_response=True hands back for
\* one calendar: it raised, or it returned a dict (empty, or keyed by the
\* calendar with or without an events list).
CalendarResponses(calendar_entity) ==
    { [kind |-> "raise", obj |-> EmptyDict],
      [kind |-> "response", obj |-> EmptyDict],
      [kind |-> "response", obj |-> [c \in {calendar_entity} |-> EmptyDict]],
      [kind |-> "response", obj |-> [c \in {calendar_entity} |-> [events |-> <<EvZahnarzt>>]]],
      [kind |-> "response",
       obj |-> [c \in {calendar_entity} |-> [events |-> <<EvKino, EvZahnarzt>>]]] }

\* the record that _execute_calendar_query appends for one event
CalendarEvent(calendar_entity, event) ==
    [calendar |-> calendar_entity,
     summary |-> DictGet(event, "summary", ""),
     start |-> DictGet(event, "start", ""),
     end |-> DictGet(event, "end", ""),
     description |-> DictGet(event, "description", ""),
     location |-> DictGet(event, "location", "")]

\* the events that the response of one calendar adds to all_events
EventsOfResponse(response, calendar_entity) ==
    IF response.kind = "response" /\ calendar_entity \in DOMAIN response.obj
    THEN LET events == DictGet(response.obj[calendar_entity], "events", <<>>)
         IN [i \in 1..Len(events) |-> CalendarEvent(calendar_entity, events[i])]
    ELSE <<>>

\* [state.entity_id for state in hass.states.async_all()
\*  if state.entity_id.startswith("calendar.")]
CalendarEntities(sts) ==
    [i \in 1..Len(StatesWithPrefix(sts, "calendar")) |->
        StatesWithPrefix(sts, "calendar")[i].entity_id]

\* task.get("start_iso"), task.get("end_iso")
StartIso(task) ==
    DictGet(task.extra, "start_iso", None)

EndIso(task) ==
    DictGet(task.extra, "end_iso", None)

\* not (not start_iso or not end_iso)
HasQueryWindow(task) ==
    StartIso(task) \notin {None, ""} /\ EndIso(task) \notin {None, ""}

CalendarQueryMissingDates(task) ==
    [task_id |-> TaskId(task), task_type |-> "calendar_query",
     operation |-> "calendar_query", success |-> FALSE,
     error |-> <<"Missing start or end date">>]

CalendarQueryNoCalendars(task) ==
    [task_id |-> TaskId(task), task_type |-> "calendar_query",
     operation |-> "calendar_query", events |-> <<>>, success |-> TRUE,
     message |-> "No calendars found"]

CalendarQueryResult(task, events) ==
    [task_id |-> TaskId(task), task_type |-> "calendar_query",
     operation |-> "calendar_query", events |-> events,
     event_count |-> Len(events), success |-> TRUE]

\* the data dict of a calendar.get_events call
GetEventsData(task, calendar_entity) ==
    [entity_id |-> calendar_entity,
     start_date_time |-> StartIso(task),
     end_date_time |-> EndIso(task)]

\* the task types that _execute_task has a branch for
ExecutorTypes ==
    {"device_control", "shopping_add", "shopping_query", "shopping_remove",
     "calendar_query", "calendar_create", "memory_read", "memory_write"}

\* an Executor whose unimplemented types fall through to the unknown-type branch
NotImplementedErrorAsUnknown(type) ==
    <<"Unknown task type: ", type>>

\* the task types whose branch of _execute_task returns one fixed failure
NotImplementedError(type) ==
    CASE type = "shopping_remove" -> <<"Shopping remove not yet fully implemented">>
      [] type \in {"memory_read", "memory_write"} -> <<"Memory operations not yet integrated">>

\* an error text that leaves the type out
UnknownTypeErrorBare(type) ==
    <<"Unknown task type">>

\* f"Unknown task type: {task_type}"
UnknownTypeError(type) ==
    <<"Unknown task type: ", type>>

\* The branches of _execute_task that make no service call: their result list.
\* (shopping_query reads hass.data, which holds no shopping list here.)
FixedResults(task) ==
    CASE task.type = "shopping_query" ->
            <<[task_id |-> TaskId(task), task_type |-> "shopping_query",
               operation |-> "shopping_query", items |-> <<>>, success |-> TRUE]>>
      [] task.type = "shopping_remove" ->
            <<[task_id |-> TaskId(task), task_type |-> "shopping_remove",
               operation |-> "shopping_remove",
               item |-> DictGet(task.extra, "item", ""), success |-> FALSE,
               error |-> NotImplementedError(task.type)]>>
      [] task.type \in {"memory_read", "memory_write"} ->
            <<[task_id |-> TaskId(task), task_type |-> task.type,
               operation |-> task.type, success |-> FALSE,
               error |-> NotImplementedError(task.type)]>>
      [] task.type = "device_control" /\ task.selected_entities = <<>> ->
            <<DeviceResultNoEntities(task)>>
      [] task.type = "calendar_create" /\ task.selected_calendar = None ->
            <<CalendarCreateNoCalendar(task)>>
      [] task.type = "shopping_add" /\ task.items = <<>> ->
            <<>>
      [] OTHER ->
            <<[task_id |-> TaskId(task), task_type |-> task.type,
               success |-> FALSE, error |-> UnknownTypeError(task.type)]>>

\* The branch of _execute_task a task takes.
ExecBranch(task) ==
    IF task.type = "device_control" /\ task.selected_entities # <<>> THEN "device_control"
    ELSE IF task.type = "shopping_add" /\ task.items # <<>> THEN "shopping_add"
    ELSE IF task.type = "calendar_create" /\ task.selected_calendar # None THEN "calendar_create"
    ELSE IF task.type = "calendar_query" THEN "calendar_query"
    ELSE "fixed"

\* sum(1 for r in results if r.get("success"))
RECURSIVE CountSuccess(_)
CountSuccess(rs) ==
    IF Len(rs) = 0 THEN 0
    ELSE (IF DictGet(rs[1], "success", FALSE) THEN 1 ELSE 0) + CountSuccess(Tail(rs))

\* a report that counts as failed every task without a success
ReportFailedPerTask(tasks, rs) ==
    [total_tasks |-> Len(tasks),
     successful_operations |-> CountSuccess(rs),
     failed_operations |-> Len(tasks) - CountSuccess(rs),
     results |-> rs]

\* the report of execute_tasks
Report(tasks, rs) ==
    [total_tasks |-> Len(tasks),
     successful_operations |-> CountSuccess(rs),
     failed_operations |-> Len(rs) - CountSuccess(rs),
     results |-> rs]

\* ------------------------------------------------------------------ Summariser

\* What llm_client.chat hands to the Summariser: it raised, or returned a text
\* (possibly empty).
SummariserLLMResults ==
    { [kind |-> "raise", text |-> ""],
      [kind |-> "text", text |-> ""],
      [kind |-> "text", text |-> "Ich habe die Regallampe eingeschaltet."] }

\* a fallback sentence that does not look at the failures once there is a success
FallbackSummaryOfSuccesses(report) ==
    LET successful == DictGet(report, "successful_operations", 0)
        failed == DictGet(report, "failed_operations", 0)
    IN IF successful > 0
       THEN <<"Done! Completed ", successful, " action(s) successfully.">>
       ELSE IF failed > 0
       THEN <<"Sorry, ", failed, " action(s) failed.">>
       ELSE <<"No actions were performed.">>

\* _fallback_summary: the sentence, as the parts of its f-string
FallbackSummary(report) ==
    LET successful == DictGet(report, "successful_operations", 0)
        failed == DictGet(report, "failed_operations", 0)
    IN IF successful > 0 /\ failed = 0
       THEN <<"Done! Completed ", successful, " action(s) successfully.">>
       ELSE IF successful > 0 /\ failed > 0
       THEN <<"Completed ", successful, " action(s), but ", failed, " failed.">>
       ELSE IF failed > 0
       THEN <<"Sorry, ", failed, " action(s) failed.">>
       ELSE <<"No actions were performed.">>

\* SummariserAgent.summarise
Summarise(report, llm) ==
    IF llm.kind = "text" /\ llm.text # "" THEN <<llm.text>>
    ELSE FallbackSummary(report)

\* ------------------------------------------------------------------ single-agent tool loop

\* The largest max_iterations that a direct call of _call_llm_with_tools passes.
MaxIterations ==
    3

\* max_iterations: int = 5, the value of a call that does not pass it
DefaultMaxIterations ==
    5

\* _call_llm_with_tools is not running
NoToolLoop ==
    [pc |-> "idle"]

\* the messages argument: the system prompt and the user's utterance
LoopMessages ==
    << [role |-> "system", content |-> "prompt"], [role |-> "user", content |-> "utterance"] >>

\* "I'm sorry, I couldn't complete the task after multiple attempts."
CouldNotComplete ==
    <<"I'm sorry, I couldn't complete the task after multiple attempts.">>

\* the speech of async_process after asyncio.TimeoutError, after any other exception
LoopTimeoutSpeech ==
    <<"I'm sorry, the request timed out. Please try again.">>
LoopErrorSpeech ==
    <<"I'm sorry, I encountered an error processing your request.">>

\* the content of a message of the server that holds no tool call
FinalContents ==
    {"", "Erledigt.", "<RESPONSE> Erledigt. </RESPONSE>"}

\* what the loop returns for a message without tool calls: the RESPONSE section
\* stripped, the content, or the fixed sentence for an empty content
FinalText(content) ==
    CASE content = "" -> <<"I don't have a response.">>
      [] content = "<RESPONSE> Erledigt. </RESPONSE>" -> <<"Erledigt.">>
      [] OTHER -> <<content>>

\* the ways a request raises out of the loop before a message is read: timeout,
\* client error, a status other than 200, a body without choices
RaisingResponses ==
    {"timeout", "client_error", "status_not_200", "no_choices"}

\* Tool calls of a message of the server: call_service with its arguments, with
\* no argument, a tool that is not registered, and an element that is no dict.
TcTurnOn ==
    [name |-> "call_service",
     arguments |-> [domain |-> "light", service |-> "turn_on",
                    entity_id |-> "light.regallampe"]]
TcNoArguments ==
    [name |-> "call_service", arguments |-> EmptyDict]
TcUnknownTool ==
    [name |-> "dance", arguments |-> EmptyDict]
TcNotADict ==
    [json |-> "string"]

\* the messages of the server that hold tool calls: the content and the calls
ToolCallAnswers ==
    { [content |-> "", tool_calls |-> <<TcTurnOn>>],
      [content |-> "Erledigt.", tool_calls |-> <<TcUnknownTool, TcTurnOn>>],
      [content |-> " ", tool_calls |-> <<TcNoArguments>>],
      [content |-> "", tool_calls |-> <<TcNotADict>>],
      [content |-> "", tool_calls |-> <<TcTurnOn, TcNotADict>>] }

\* how the model names such a message in the log of responses
AnswerKind(answer) ==
    IF \E k \in 1..Len(answer.tool_calls) : "json" \in DOMAIN answer.tool_calls[k]
    THEN "tool_call_not_a_dict"
    ELSE "tool_calls"

\* the assistant message appended for a message of the server with tool calls
\* (content.strip() is empty: the fixed note)
AssistantMessage(content) ==
    [role |-> "assistant",
     content |-> IF content \in {"", " "} THEN "Using tools to help with your request..."
                 ELSE content]

\* self.tool_registry.get(tool_name): of the registered tools the answers of the
\* model name call_service
ToolRegistered(tool_name) ==
    tool_name = "call_service"

\* CallServiceTool.async_call(**tool_args) binds its arguments: domain and service
\* are required
ToolArgumentsBind(tool_args) ==
    {"domain", "service"} \subseteq DOMAIN tool_args

\* the service call of CallServiceTool.async_call, for an entity_id that names one
\* entity
ToolServiceCall(tool_args) ==
    [domain |-> tool_args.domain, service |-> tool_args.service,
     data |-> IF DictGet(tool_args, "entity_id", None) \notin {None, ""}
              THEN DictMerge(DictGet(tool_args, "data", EmptyDict),
                             [entity_id |-> tool_args.entity_id])
              ELSE DictGet(tool_args, "data", EmptyDict)]

\* f"{tool_name}: {result_str}" for a tool that returned (the service call
\* returned, raised), that raised, that is not registered
ToolResultText(tool_call, outcome) ==
    tool_call.name \o ": " \o
    CASE outcome = "success" ->
            "{\"success\": true, \"message\": \"Called " \o tool_call.arguments.domain
                \o "." \o tool_call.arguments.service \o "\"}"
      [] outcome = "failure" -> "{\"success\": false, \"error\": \"service failed\"}"
      [] outcome = "raised" ->
            "{\"success\": false, \"error\": \"CallServiceTool.async_call() missing 2 "
                \o "required positional arguments: 'domain' and 'service'\"}"
      [] OTHER ->
            "{\"success\": false, \"error\": \"Tool " \o tool_call.name \o " not found\"}"

\* "Tool results:\n" + "\n".join(tool_results)
RECURSIVE JoinLines(_)
JoinLines(lines) ==
    IF Len(lines) = 0 THEN ""
    ELSE IF Len(lines) = 1 THEN lines[1]
    ELSE lines[1] \o "\n" \o JoinLines(Tail(lines))

\* the user message that carries the results of the tool calls
ToolResultsMessage(tool_results) ==
    [role |-> "user", content |-> "Tool results:\n" \o JoinLines(tool_results)]

\* The for loop over tool_calls from position k on, up to the point where it
\* leaves the event loop's step: the end of the list, an element that raises out of
\* the loop (no dict: tool_call.get), or the await inside a registered tool. A
\* tool that is not registered and a call whose arguments do not bind add their
\* result and the loop goes on.
RECURSIVE RunToolCalls(_, _, _)
RunToolCalls(tool_calls, k, tool_results) ==
    IF k > Len(tool_calls)
    THEN [at |-> "end", k |-> k, tool_results |-> tool_results]
    ELSE IF "json" \in DOMAIN tool_calls[k]
    THEN [at |-> "raise", k |-> k, tool_results |-> tool_results]
    ELSE IF ~ToolRegistered(tool_calls[k].name)
    THEN RunToolCalls(tool_calls, k + 1,
                      Append(tool_results, ToolResultText(tool_calls[k], "not_found")))
    ELSE IF ~ToolArgumentsBind(tool_calls[k].arguments)
    THEN RunToolCalls(tool_calls, k + 1,
                      Append(tool_results, ToolResultText(tool_calls[k], "raised")))
    ELSE [at |-> "await", k |-> k, tool_results |-> tool_results]

\* the locals of the loop where RunToolCalls has left it
AfterToolCalls(loop, run) ==
    CASE run.at = "raise" ->
            [loop EXCEPT !.pc = "raised", !.tool_calls = <<>>, !.tool_index = 0,
                         !.tool_results = <<>>]
      [] run.at = "await" ->
            [loop EXCEPT !.pc = "tool", !.tool_index = run.k,
                         !.tool_results = run.tool_results]
      [] OTHER ->
            [loop EXCEPT !.current_messages = Append(@, ToolResultsMessage(run.tool_results)),
                         !.pc = "while", !.tool_calls = <<>>, !.tool_index = 0,
                         !.tool_results = <<>>]

\* a loop whose test lets one more turn through
WhileTestInclusive(iteration, max_iterations) ==
    iteration <= max_iterations

\* while iteration < max_iterations
WhileTest(iteration, max_iterations) ==
    iteration < max_iterations

\* ------------------------------------------------------------------ async_process

VARIABLES
    states,               \* hass.states.async_all(): the live registry
    now,                  \* datetime.now(): the clock during the utterance
    tool_loop,            \* the locals of _call_llm_with_tools of the single-agent entity
    pc,                   \* the stage async_process is in, or how it ended
    planned,              \* what planner.plan returned (of its task list, the length)
    tasks,                \* the task list of the utterance
    idx,                  \* the task the running stage's loop is at
    sub,                  \* the entity or item the Executor's inner loop is at
    executed_signatures,  \* of execute_tasks
    results,              \* of execute_tasks
    origin,               \* for each result: the task and sub-operation it reports
    all_events,           \* of _execute_calendar_query: the events collected so far
    report,               \* what execute_tasks returned
    calls,                \* the platform service calls made, in order, each with the
                          \* task and the entity, item or calendar the Executor was at
    llm_calls,            \* the LLM calls made, in order
    proposal,             \* what the LLM handed to plan(), to the running turn of select(), to summarise()
    stages,               \* the calls, returns and raises of the stages, in order
    speech                \* the speech of the ConversationResult returned

vars ==
    <<states, now, tool_loop, pc, planned, tasks, idx, sub, executed_signatures, results, origin,
      all_events, report, calls, llm_calls, proposal, stages, speech>>

NoSpeech ==
    <<>>

NoProposal ==
    [kind |-> "none", obj |-> EmptyDict]

ErrorSpeech ==
    <<"I'm sorry, I encountered an error processing your request.">>

Init ==
    /\ states \in LiveConfigs
    /\ now = [day |-> 2, tod |-> Afternoon]
    /\ tool_loop = NoToolLoop
    /\ pc = "planner"
    /\ planned = EmptyDict
    /\ tasks = <<>>
    /\ idx = 1
    /\ sub = 1
    /\ executed_signatures = {}
    /\ results = <<>>
    /\ origin = <<>>
    /\ all_events = <<>>
    /\ report = EmptyDict
    /\ calls = <<>>
    /\ llm_calls = <<>>
    /\ proposal = NoProposal
    /\ stages = <<>>
    /\ speech = NoSpeech

Called(stage) ==
    [ev |-> "call", stage |-> stage]

Returned(stage) ==
    [ev |-> "return", stage |-> stage]

Raised(stage) ==
    [ev |-> "raise", stage |-> stage]

\* an order of the stages with the Executor ahead of the Selector
StageAfterExecutorFirst(stage) ==
    CASE stage = "planner" -> "resolver"
      [] stage = "resolver" -> "executor"
      [] stage = "executor" -> "selector"
      [] stage = "selector" -> "summariser"
      [] stage = "summariser" -> "done"

\* the stage that async_process calls when a stage has returned
StageAfter(stage) ==
    CASE stage = "planner" -> "resolver"
      [] stage = "resolver" -> "selector"
      [] stage = "selector" -> "executor"
      [] stage = "executor" -> "summariser"
      [] stage = "summariser" -> "done"

\* a try that encloses the Planner call only
TryEnclosesPlannerOnly(stage) ==
    stage = "planner"

\* Does the try of async_process enclose the stage? (It encloses all five.)
TryEncloses(stage) ==
    stage \in {"planner", "resolver", "selector", "executor", "summariser"}

\* where an exception raised inside a stage takes async_process
RaiseTarget(stage) ==
    IF TryEncloses(stage) THEN "except" ELSE "propagated"

\* an early return for a response only, not for an empty task list
EarlyReturnResponseOnly(result) ==
    "response" \in DOMAIN result

\* Does async_process return right after the Planner? ("response" in result, or
\* an empty task list)
EarlyReturn(result) ==
    "response" \in DOMAIN result \/ result.tasks = <<>>

\* the speech of an early return
EarlySpeech(result) ==
    IF "response" \in DOMAIN result THEN <<result.response>> ELSE <<NotSureHowToHelp>>

\* async_process hands the tasks to the stage after `stage` (a stage that is
\* "done" is the return of the result)
Handover(stage) ==
    /\ pc' = StageAfter(stage)
    /\ stages' = stages \o <<Returned(stage)>>
                 \o (IF StageAfter(stage) = "done" THEN <<>> ELSE <<Called(StageAfter(stage))>>)
    /\ idx' = 1
    /\ sub' = 1

\* 1. PLAN: planner.plan, then the two early returns of async_process
PlannerStep ==
    /\ pc = "planner"
    /\ \E llm \in PlannerLLMResults :
          /\ llm_calls' = Append(llm_calls, <<"planner", 0>>)
          /\ proposal' = llm
          /\ IF PlanRaises(llm)
             THEN /\ pc' = RaiseTarget("planner")
                  /\ stages' = stages \o <<Called("planner"), Raised("planner")>>
                  /\ UNCHANGED <<planned, tasks, speech, idx, sub>>
             ELSE LET result == Plan(llm)
                  IN IF EarlyReturn(result)
                     THEN /\ speech' = EarlySpeech(result)
                          /\ planned' = IF "response" \in DOMAIN result
                                        THEN result ELSE [tasks |-> 0]
                          /\ pc' = "done"
                          /\ stages' = stages \o <<Called("planner"), Returned("planner")>>
                          /\ UNCHANGED <<tasks, idx, sub>>
                     ELSE /\ tasks' = result.tasks
                          /\ planned' = [tasks |-> Len(result.tasks)]
                          /\ pc' = StageAfter("planner")
                          /\ stages' = stages \o <<Called("planner"), Returned("planner"),
                                                   Called(StageAfter("planner"))>>
                          /\ idx' = 1
                          /\ sub' = 1
                          /\ UNCHANGED speech
    /\ UNCHANGED <<states, now, tool_loop, executed_signatures, results, origin, report,
                   calls, all_events>>

\* 2. RESOLVE: resolver.resolve_tasks (no suspension inside)
ResolverStep ==
    /\ pc = "resolver"
    /\ tasks' = ResolveTasks(tasks, states, now)
    /\ Handover("resolver")
    /\ UNCHANGED <<states, now, tool_loop, planned, executed_signatures, results, origin,
                   report, calls, llm_calls, proposal, speech, all_events>>

\* 3. SELECT: one turn of the loop of selector.select; the LLM call of a
\* device_control task is its suspension point
SelectorStep ==
    /\ pc = "selector"
    /\ idx <= Len(tasks)
    /\ IF NeedsSelectorLLM(tasks[idx])
       THEN \E llm \in SelectorLLMResults :
              /\ llm_calls' = Append(llm_calls, <<"selector", idx>>)
              /\ proposal' = llm
              /\ IF SelectRaises(tasks[idx], llm)
                 THEN /\ pc' = RaiseTarget("selector")
                      /\ stages' = Append(stages, Raised("selector"))
                      /\ UNCHANGED <<tasks, idx>>
                 ELSE /\ tasks' = [tasks EXCEPT ![idx] = SelectTask(tasks[idx], llm)]
                      /\ idx' = idx + 1
                      /\ UNCHANGED <<pc, stages>>
       ELSE /\ tasks' = [tasks EXCEPT ![idx] = SelectTask(tasks[idx], NoProposal)]
            /\ idx' = idx + 1
            /\ proposal' = NoProposal
            /\ UNCHANGED <<llm_calls, pc, stages>>
    /\ UNCHANGED <<states, now, tool_loop, planned, sub, executed_signatures, results,
                   origin, report, calls, speech, all_events>>

\* select() returns
SelectorReturn ==
    /\ pc = "selector"
    /\ idx > Len(tasks)
    /\ Handover("selector")
    /\ proposal' = NoProposal
    /\ UNCHANGED <<states, now, tool_loop, planned, tasks, executed_signatures, results,
                   origin, report, calls, llm_calls, speech, all_events>>

\* a loop that a raising call ends (a try around the loop)
LoopGoesOnAfterSuccess(ok) ==
    ok

\* Does the loop over the entities or items of a task go on after a service call
\* that returned (ok) or raised (~ok)? (The try is inside the loop: it goes on.)
LoopGoesOn(ok) ==
    TRUE

\* the loop of an executor branch moves on: to the next of the n entities or
\* items of the task, or to the next task
AdvanceSub(n, ok) ==
    IF sub < n /\ LoopGoesOn(ok)
    THEN sub' = sub + 1 /\ idx' = idx
    ELSE sub' = 1 /\ idx' = idx + 1

\* an Executor without the signature test
IsDuplicateNever(sig, executed) ==
    FALSE

\* sig in executed_signatures
IsDuplicate(sig, executed) ==
    sig \in executed

\* executed_signatures after a service call that returned (ok) or raised (~ok):
\* the add is the last statement of the try body
SignaturesAfterCall(executed, sig, ok) ==
    IF ok THEN executed \cup {sig} ELSE executed

\* an Executor that writes the status executed on the task it has handled
TaskMarkedExecuted(task) ==
    [task EXCEPT !.status = "executed"]

\* the task after _execute_task has handled it: the Executor reads the task with
\* task.get and assigns to no key of it
TaskAfterExecution(task) ==
    task

\* a status test that hands failed tasks to _execute_task as well
ReadyOrFailed(task) ==
    task.status \in {"ready_for_execution", "failed"}

\* a status test that lets every task but a failed one through
ReadyUnlessFailed(task) ==
    task.status # "failed"

\* task.get("status") == "ready_for_execution": the task is handed to _execute_task
ReadyForExecution(task) ==
    task.status = "ready_for_execution"

\* 4. EXECUTE: a task whose status is not ready_for_execution is skipped
ExecSkip ==
    /\ pc = "executor"
    /\ idx <= Len(tasks)
    /\ ~ReadyForExecution(tasks[idx])
    /\ idx' = idx + 1
    /\ UNCHANGED <<states, now, tool_loop, pc, planned, tasks, sub, executed_signatures,
                   results, origin, report, calls, llm_calls, proposal, stages, speech,
                   all_events>>

\* a branch of _execute_task that makes no service call
ExecFixed ==
    /\ pc = "executor"
    /\ idx <= Len(tasks)
    /\ ReadyForExecution(tasks[idx])
    /\ ExecBranch(tasks[idx]) = "fixed"
    /\ results' = results \o FixedResults(tasks[idx])
    /\ origin' = origin \o [k \in 1..Len(FixedResults(tasks[idx])) |->
                               [task |-> idx, sub |-> 0, call |-> 0]]
    /\ idx' = idx + 1
    /\ tasks' = [tasks EXCEPT ![idx] = TaskAfterExecution(tasks[idx])]
    /\ UNCHANGED <<states, now, tool_loop, pc, planned, sub, executed_signatures, report,
                   calls, llm_calls, proposal, stages, speech, all_events>>

\* a loop that walks selected_entities from its end
EntityAtReversed(selected_entities, turn) ==
    selected_entities[Len(selected_entities) - turn + 1]

\* for entity_id in selected_entities: the entity of the turn-th turn of the loop
EntityAt(selected_entities, turn) ==
    selected_entities[turn]

\* _execute_device_control: one turn of the loop over selected_entities; the
\* service call is its suspension point and returns or raises
ExecDeviceControl ==
    /\ pc = "executor"
    /\ idx <= Len(tasks)
    /\ ReadyForExecution(tasks[idx])
    /\ ExecBranch(tasks[idx]) = "device_control"
    /\ LET task == tasks[idx]
           entity_id == EntityAt(task.selected_entities, sub)
           domain == DictGet(task.service_data, "domain", "light")
           service == DictGet(task.service_data, "service", "turn_on")
           extra_data == DictGet(task.service_data, "data", EmptyDict)
           sig == Signature(domain, service, entity_id)
           call(ok) == [domain |-> domain, service |-> service,
                        data |-> DeviceCallData(entity_id, extra_data), ok |-> ok,
                        task |-> idx, sub |-> sub]
       IN \/ /\ IsDuplicate(sig, executed_signatures)
             /\ results' = Append(results,
                                  DeviceResultDuplicate(task, domain, service, entity_id))
             /\ origin' = Append(origin, [task |-> idx, sub |-> sub, call |-> 0])
             /\ AdvanceSub(Len(task.selected_entities), TRUE)
             /\ UNCHANGED <<calls, executed_signatures>>
          \/ /\ ~IsDuplicate(sig, executed_signatures)
             /\ \E ok \in BOOLEAN :
                   /\ calls' = Append(calls, call(ok))
                   /\ results' = Append(results,
                                        IF ok
                                        THEN DeviceResultSuccess(task, domain, service, entity_id)
                                        ELSE DeviceResultFailure(task, domain, service, entity_id))
                   /\ executed_signatures' = SignaturesAfterCall(executed_signatures, sig, ok)
                   /\ AdvanceSub(Len(task.selected_entities), ok)
             /\ origin' = Append(origin, [task |-> idx, sub |-> sub, call |-> Len(calls) + 1])
    /\ tasks' = [tasks EXCEPT ![idx] = TaskAfterExecution(tasks[idx])]
    /\ UNCHANGED <<states, now, tool_loop, pc, planned, report, llm_calls, proposal,
                   stages, speech, all_events>>

\* a loop over the items without their repetitions
ShoppingItemsOnce(task) ==
    LET seen[k \in 0..Len(task.items)] ==
            IF k = 0 THEN <<>>
            ELSE IF task.items[k] \in Range(seen[k - 1]) THEN seen[k - 1]
            ELSE Append(seen[k - 1], task.items[k])
    IN seen[Len(task.items)]

\* items = task.get("items", []): what the loop of _execute_shopping_add walks
ShoppingItems(task) ==
    task.items

\* _execute_shopping_add: one turn of the loop over items
ExecShoppingAdd ==
    /\ pc = "executor"
    /\ idx <= Len(tasks)
    /\ ReadyForExecution(tasks[idx])
    /\ ExecBranch(tasks[idx]) = "shopping_add"
    /\ LET task == tasks[idx]
           item == ShoppingItems(task)[sub]
       IN \E ok \in BOOLEAN :
             /\ calls' = Append(calls,
                                [domain |-> "shopping_list", service |-> "add_item",
                                 data |-> [name |-> item], ok |-> ok,
                                 task |-> idx, sub |-> sub])
             /\ results' = Append(results, ShoppingAddResult(task, item, ok))
             /\ AdvanceSub(Len(ShoppingItems(task)), ok)
    /\ origin' = Append(origin, [task |-> idx, sub |-> sub, call |-> Len(calls) + 1])
    /\ tasks' = [tasks EXCEPT ![idx] = TaskAfterExecution(tasks[idx])]
    /\ UNCHANGED <<states, now, tool_loop, pc, planned, executed_signatures, report,
                   llm_calls, proposal, stages, speech, all_events>>

\* _execute_calendar_create with a selected calendar
ExecCalendarCreate ==
    /\ pc = "executor"
    /\ idx <= Len(tasks)
    /\ ReadyForExecution(tasks[idx])
    /\ ExecBranch(tasks[idx]) = "calendar_create"
    /\ LET task == tasks[idx]
       IN \E ok \in BOOLEAN :
             /\ calls' = Append(calls,
                                [domain |-> "calendar", service |-> "create_event",
                                 data |-> CreateEventData(task),
                                 ok |-> ok, task |-> idx, sub |-> 1])
             /\ results' = Append(results, CalendarCreateResult(task, ok))
    /\ origin' = Append(origin, [task |-> idx, sub |-> 1, call |-> Len(calls) + 1])
    /\ idx' = idx + 1
    /\ tasks' = [tasks EXCEPT ![idx] = TaskAfterExecution(tasks[idx])]
    /\ UNCHANGED <<states, now, tool_loop, pc, planned, sub, executed_signatures, report,
                   llm_calls, proposal, stages, speech, all_events>>

\* _execute_calendar_query without a call: a date is missing, or no calendar is live
ExecCalendarQueryNoCall ==
    /\ pc = "executor"
    /\ idx <= Len(tasks)
    /\ ReadyForExecution(tasks[idx])
    /\ ExecBranch(tasks[idx]) = "calendar_query"
    /\ ~HasQueryWindow(tasks[idx]) \/ CalendarEntities(states) = <<>>
    /\ results' = Append(results,
                         IF ~HasQueryWindow(tasks[idx])
                         THEN CalendarQueryMissingDates(tasks[idx])
                         ELSE CalendarQueryNoCalendars(tasks[idx]))
    /\ origin' = Append(origin, [task |-> idx, sub |-> 0, call |-> 0])
    /\ idx' = idx + 1
    /\ tasks' = [tasks EXCEPT ![idx] = TaskAfterExecution(tasks[idx])]
    /\ UNCHANGED <<states, now, tool_loop, pc, planned, sub, executed_signatures,
                   all_events, report, calls, llm_calls, proposal, stages, speech>>

\* a loop over the calendars that a raising query ends
QueryGoesOnAfterSuccess(ok) ==
    ok

\* Does the loop over the calendars go on after a query that returned (ok) or
\* raised (~ok)? (except ... continue: it goes on.)
QueryGoesOn(ok) ==
    TRUE

\* _execute_calendar_query: one turn of the loop over the live calendars; the
\* get_events call is its suspension point and returns or raises; after the last
\* calendar the one result of the task is returned
ExecCalendarQuery ==
    /\ pc = "executor"
    /\ idx <= Len(tasks)
    /\ ReadyForExecution(tasks[idx])
    /\ ExecBranch(tasks[idx]) = "calendar_query"
    /\ HasQueryWindow(tasks[idx])
    /\ CalendarEntities(states) # <<>>
    /\ LET task == tasks[idx]
           calendar_entity == CalendarEntities(states)[sub]
       IN \E response \in CalendarResponses(calendar_entity) :
             /\ calls' = Append(calls,
                                [domain |-> "calendar", service |-> "get_events",
                                 data |-> GetEventsData(task, calendar_entity),
                                 ok |-> response.kind # "raise",
                                 response |-> response.obj,
                                 task |-> idx, sub |-> sub])
             /\ IF sub < Len(CalendarEntities(states)) /\ QueryGoesOn(response.kind # "raise")
                THEN /\ all_events' = all_events \o EventsOfResponse(response, calendar_entity)
                     /\ sub' = sub + 1
                     /\ UNCHANGED <<idx, results, origin>>
                ELSE /\ results' = Append(results,
                                          CalendarQueryResult(task,
                                              all_events \o EventsOfResponse(response,
                                                                             calendar_entity)))
                     /\ origin' = Append(origin, [task |-> idx, sub |-> 0, call |-> 0])
                     /\ all_events' = <<>>
                     /\ sub' = 1
                     /\ idx' = idx + 1
    /\ tasks' = [tasks EXCEPT ![idx] = TaskAfterExecution(tasks[idx])]
    /\ UNCHANGED <<states, now, tool_loop, pc, planned, executed_signatures, report,
                   llm_calls, proposal, stages, speech>>

\* execute_tasks returns its report
ExecutorReturn ==
    /\ pc = "executor"
    /\ idx > Len(tasks)
    /\ report' = Report(tasks, results)
    /\ Handover("executor")
    /\ UNCHANGED <<states, now, tool_loop, planned, tasks, executed_signatures, results,
                   origin, calls, llm_calls, proposal, speech, all_events>>

\* 5. SUMMARISE: the LLM call returns or raises; async_process returns the result
SummariserStep ==
    /\ pc = "summariser"
    /\ \E llm \in SummariserLLMResults :
          /\ llm_calls' = Append(llm_calls, <<"summariser", 0>>)
          /\ proposal' = llm
          /\ speech' = Summarise(report, llm)
    /\ Handover("summariser")
    /\ UNCHANGED <<states, now, tool_loop, planned, tasks, executed_signatures, results,
                   origin, report, calls, all_events>>

\* except Exception: the apology
ExceptHandler ==
    /\ pc = "except"
    /\ speech' = ErrorSpeech
    /\ pc' = "done"
    /\ UNCHANGED <<states, now, tool_loop, planned, tasks, idx, sub, executed_signatures,
                   results, origin, report, calls, llm_calls, proposal, stages, all_events>>

Next ==
    \/ PlannerStep
    \/ ResolverStep
    \/ SelectorStep
    \/ SelectorReturn
    \/ ExecSkip
    \/ ExecFixed
    \/ ExecDeviceControl
    \/ ExecShoppingAdd
    \/ ExecCalendarCreate
    \/ ExecCalendarQueryNoCall
    \/ ExecCalendarQuery
    \/ ExecutorReturn
    \/ SummariserStep
    \/ ExceptHandler

Spec ==
    Init /\ [][Next]_vars


\* ------------------------------------------------------------------ execute_tasks alone

\* A device_control task as it may be handed to execute_tasks.
SelectedTask(status, selected_entities) ==
    [DeviceTask(status, "turn_on", "light", <<TxtRegallampe>>, EmptyDict) EXCEPT
        !.selected_entities = selected_entities,
        !.service_data = [domain |-> "light", service |-> "turn_on", data |-> EmptyDict]]

\* The tasks a caller may hand to execute_tasks: every status (None: no status
\* key) on tasks that would make calls, and every task type on ready tasks.
ExecutorTasks ==
    { SelectedTask(s, <<StLightRegal.entity_id>>) : s \in LLMStatuses }
    \cup
    { SelectedTask("ready_for_execution", es) :
        es \in { <<>>, <<StLightRegal.entity_id, StLightSchrank.entity_id>>,
                 <<StLightRegal.entity_id, StLightRegal.entity_id>> } }
    \cup
    { [LLMTask("shopping_add", s) EXCEPT !.items = SplitItems(TxtKaeseUndWein)] :
        s \in {"ready_for_execution", "pending", "executed"} }
    \cup
    { [LLMTask("calendar_create", s) EXCEPT !.selected_calendar = StCalHome.entity_id] :
        s \in {"ready_for_execution", "awaiting_selection"} }
    \cup
    { LLMTask(t, "ready_for_execution") :
        t \in {"calendar_create", "shopping_query", "shopping_remove", "memory_read",
               "memory_write", "timer_start", "dance", None} }
    \cup
    { LLMTask(t, s) : t \in {"shopping_query", "dance"}, s \in {"failed", None} }
    \cup
    \* calendar_query tasks as the Resolver leaves them, and with a date missing
    { [LLMTask("calendar_query", s) EXCEPT !.extra = x] :
        s \in {"ready_for_execution"},
        x \in { [start_iso |-> "2026-11-02T00:00:00", end_iso |-> "2026-11-03T00:00:00"],
                [start_iso |-> "2026-11-02T00:00:00"],
                [start_iso |-> "2026-11-02T00:00:00", end_iso |-> ""] } }

\* execute_tasks is called with a task list of the caller's
ExecInit ==
    /\ states \in LiveConfigs
    /\ now = [day |-> 2, tod |-> Afternoon]
    /\ tool_loop = NoToolLoop
    /\ pc = "executor"
    /\ planned = EmptyDict
    /\ tasks \in SeqsUpTo(ExecutorTasks, MaxTasks)
    /\ idx = 1
    /\ sub = 1
    /\ executed_signatures = {}
    /\ results = <<>>
    /\ origin = <<>>
    /\ all_events = <<>>
    /\ report = EmptyDict
    /\ calls = <<>>
    /\ llm_calls = <<>>
    /\ proposal = NoProposal
    /\ stages = <<Called("executor")>>
    /\ speech = NoSpeech

ExecNext ==
    \/ ExecSkip
    \/ ExecFixed
    \/ ExecDeviceControl
    \/ ExecShoppingAdd
    \/ ExecCalendarCreate
    \/ ExecCalendarQueryNoCall
    \/ ExecCalendarQuery
    \/ ExecutorReturn

ExecSpec ==
    ExecInit /\ [][ExecNext]_vars

\* ------------------------------------------------------------------ select alone

\* the registry that the tasks handed to select() were resolved against
SelectorRegistry ==
    <<StLightRegal, StLightSchrank, StSwitchRegal, StCalHome, StCalWork>>

\* The tasks a caller may hand to select(): resolved tasks, with every status
\* (None: no status key) on the task types that select() has a branch for.
SelectorTasks ==
    { [ResolveDeviceControl(DeviceTask(None, "turn_on", "light", <<TxtRegallampe>>,
                                       [brightness |-> 128]), SelectorRegistry)
          EXCEPT !.status = s] : s \in LLMStatuses }
    \cup
    { [ResolveCalendarCreate(LLMTask("calendar_create", None), SelectorRegistry,
                            [day |-> 2, tod |-> Afternoon])
          EXCEPT !.status = s] : s \in LLMStatuses }
    \cup
    \* calendar_create tasks waiting for a selection among no calendar, among one
    { [LLMTask("calendar_create", "awaiting_selection") EXCEPT
          !.available_calendars = cs, !.selected_calendar = InventedCalendar] :
        cs \in { <<>>, SubSeq(AvailableCalendars(SelectorRegistry), 2, 2) } }
    \cup
    { ResolveShoppingAdd([LLMTask("shopping_add", None) EXCEPT !.raw_items = TxtMilkMilk]) }
    \cup
    { LLMTask(t, s) : t \in {"shopping_query", "dance"},
                      s \in {"awaiting_selection", "pending", "ready_for_execution"} }

\* select() is called with a task list of the caller's
SelectInit ==
    /\ states = SelectorRegistry
    /\ now = [day |-> 2, tod |-> Afternoon]
    /\ tool_loop = NoToolLoop
    /\ pc = "selector"
    /\ planned = EmptyDict
    /\ tasks \in SeqsUpTo(SelectorTasks, MaxTasks)
    /\ idx = 1
    /\ sub = 1
    /\ executed_signatures = {}
    /\ results = <<>>
    /\ origin = <<>>
    /\ all_events = <<>>
    /\ report = EmptyDict
    /\ calls = <<>>
    /\ llm_calls = <<>>
    /\ proposal = NoProposal
    /\ stages = <<Called("selector")>>
    /\ speech = NoSpeech

SelectNext ==
    \/ SelectorStep
    \/ SelectorReturn

SelectSpec ==
    SelectInit /\ [][SelectNext]_vars


\* ------------------------------------------------------------------ resolve_tasks alone

\* The number of tasks handed to resolve_tasks.
MaxResolve ==
    2

\* what the Planner LLM may write on the start or end key (<<>>: no key)
DateTexts ==
    {<<>>, TxtToday, TxtHeute, TxtTomorrow, TxtTomorrowCap, TxtGestern, TxtIsoDate,
     TxtNextWeek}

\* what the Planner LLM may write on the duration key
DurationTexts ==
    {<<>>, Txt5Minutes, Txt90Sekunden, Txt2Stunden, Txt1Hour, Txt10, Txt2Days, TxtSoon}

\* what the Planner LLM may write on the raw_items key
ItemTexts ==
    {<<>>, TxtKaeseUndWein, TxtMilkMilk, TxtKaeseUndUndWein, TxtBrotEier,
     TxtOnlySeparators}

\* the keys of a task that hold a text, those with an empty text left out
TextKeys(d) ==
    [k \in {key \in DOMAIN d : d[key] # <<>>} |-> d[k]]

\* The tasks a caller may hand to resolve_tasks: tasks as plan() returns them.
ResolverTasks ==
    { [LLMTask("calendar_query", "pending") EXCEPT
          !.extra = TextKeys([start |-> s, end |-> e])] : s \in DateTexts, e \in DateTexts }
    \cup
    { [LLMTask("timer_start", "pending") EXCEPT !.extra = [duration |-> d]] :
        d \in DurationTexts }
    \cup
    { LLMTask("timer_start", "pending") }
    \cup
    { [LLMTask("shopping_add", "pending") EXCEPT !.raw_items = r] : r \in ItemTexts }
    \cup
    { [LLMTask("calendar_create", "pending") EXCEPT
          !.extra = TextKeys([start |-> s, end |-> e])] :
        s \in {<<>>, TxtTomorrow, TxtIsoDate}, e \in {<<>>, TxtTomorrow, TxtNextWeek} }
    \cup
    { DeviceTask("pending", "turn_on", "light", <<TxtRegallampe>>, EmptyDict),
      LLMTask("shopping_query", "pending") }

\* resolve_tasks is called with a task list of the caller's, at some time of day
ResolveInit ==
    /\ states \in LiveConfigs
    /\ now \in Clock
    /\ tool_loop = NoToolLoop
    /\ pc = "resolver"
    /\ planned = EmptyDict
    /\ tasks \in SeqsUpTo(ResolverTasks, MaxResolve)
    /\ idx = 1
    /\ sub = 1
    /\ executed_signatures = {}
    /\ results = <<>>
    /\ origin = <<>>
    /\ all_events = <<>>
    /\ report = EmptyDict
    /\ calls = <<>>
    /\ llm_calls = <<>>
    /\ proposal = NoProposal
    /\ stages = <<Called("resolver")>>
    /\ speech = NoSpeech

ResolveNext ==
    ResolverStep

ResolveSpec ==
    ResolveInit /\ [][ResolveNext]_vars
\* ------------------------------------------------------------------ _call_llm_with_tools alone

\* _call_llm_with_tools is called: iteration = 0, current_messages = messages.copy(),
\* use_tools = True. The caller is async_process of the single-agent entity (the
\* schemas of the registered tools, max_iterations left at its default) or a direct
\* caller that passes max_iterations. requests and responses log the traffic with
\* the server.
LoopInit ==
    /\ states = SelectorRegistry
    /\ now = [day |-> 2, tod |-> Afternoon]
    /\ \E caller \in {"async_process", "direct"} :
       \E max_iterations \in IF caller = "direct" THEN 0..MaxIterations
                             ELSE {DefaultMaxIterations} :
       \E tool_schemas \in IF caller = "direct" THEN BOOLEAN ELSE {TRUE} :
          tool_loop = [pc |-> "while",
                       caller |-> caller,
                       max_iterations |-> max_iterations,
                       tool_schemas |-> tool_schemas,
                       iteration |-> 0,
                       current_messages |-> LoopMessages,
                       use_tools |-> TRUE,
                       tool_calls |-> <<>>,
                       tool_index |-> 0,
                       tool_results |-> <<>>,
                       requests |-> <<>>,
                       responses |-> <<>>,
                       result |-> <<>>]
    /\ pc = "idle"
    /\ planned = EmptyDict
    /\ tasks = <<>>
    /\ idx = 1
    /\ sub = 1
    /\ executed_signatures = {}
    /\ results = <<>>
    /\ origin = <<>>
    /\ all_events = <<>>
    /\ report = EmptyDict
    /\ calls = <<>>
    /\ llm_calls = <<>>
    /\ proposal = NoProposal
    /\ stages = <<>>
    /\ speech = NoSpeech

\* the variables of the multi-agent pipeline, which the single-agent entity does
\* not touch
PipelineUnchanged ==
    UNCHANGED <<states, now, pc, planned, tasks, idx, sub, executed_signatures, results,
                origin, all_events, report, llm_calls, proposal, stages>>

\* a turn of the loop begins: the counter, the payload, the request is sent
LoopRequest ==
    /\ tool_loop.pc = "while"
    /\ WhileTest(tool_loop.iteration, tool_loop.max_iterations)
    /\ tool_loop' = [tool_loop EXCEPT
          !.iteration = @ + 1,
          !.requests = Append(@, [tools |-> tool_loop.use_tools /\ tool_loop.tool_schemas,
                                  use_tools |-> tool_loop.use_tools,
                                  messages |-> Len(tool_loop.current_messages)]),
          !.pc = "request"]
    /\ UNCHANGED <<calls, speech>>
    /\ PipelineUnchanged

\* the while test fails: max iterations reached
LoopExhausted ==
    /\ tool_loop.pc = "while"
    /\ ~WhileTest(tool_loop.iteration, tool_loop.max_iterations)
    /\ tool_loop' = [tool_loop EXCEPT !.result = CouldNotComplete, !.pc = "returned"]
    /\ UNCHANGED <<calls, speech>>
    /\ PipelineUnchanged

\* the request raises out of the loop; an answer that only says tools are
\* unsupported raises when tools are already off
LoopRaises ==
    /\ tool_loop.pc = "request"
    /\ \E response \in RaisingResponses \cup {"tools_unsupported"} :
          /\ response = "tools_unsupported" => ~tool_loop.use_tools
          /\ tool_loop' = [tool_loop EXCEPT !.responses = Append(@, response),
                                            !.pc = "raised"]
    /\ UNCHANGED <<calls, speech>>
    /\ PipelineUnchanged

\* status other than 200 with an error text about tools, while tools are on: the
\* switch to no-tools mode
LoopSwitchToNoTools ==
    /\ tool_loop.pc = "request"
    /\ tool_loop.use_tools
    /\ tool_loop' = [tool_loop EXCEPT !.responses = Append(@, "tools_unsupported"),
                                      !.use_tools = FALSE,
                                      !.iteration = 0,
                                      !.current_messages = LoopMessages,
                                      !.pc = "while"]
    /\ UNCHANGED <<calls, speech>>
    /\ PipelineUnchanged

\* a message without tool calls: the loop returns its text
LoopFinalAnswer ==
    /\ tool_loop.pc = "request"
    /\ \E content \in FinalContents :
          tool_loop' = [tool_loop EXCEPT !.responses = Append(@, "final"),
                                         !.result = FinalText(content),
                                         !.pc = "returned"]
    /\ UNCHANGED <<calls, speech>>
    /\ PipelineUnchanged

\* a message with tool calls: the assistant message is appended and the for loop
\* runs up to its first await (the service call of the tool is then on its way),
\* to an element that raises, or to its end (the message with the results)
LoopToolCalls ==
    /\ tool_loop.pc = "request"
    /\ \E answer \in ToolCallAnswers :
          LET loop == [tool_loop EXCEPT
                          !.responses = Append(@, AnswerKind(answer)),
                          !.current_messages = Append(@, AssistantMessage(answer.content)),
                          !.tool_calls = answer.tool_calls]
              run == RunToolCalls(answer.tool_calls, 1, <<>>)
          IN /\ tool_loop' = AfterToolCalls(loop, run)
             /\ calls' = IF run.at = "await"
                         THEN Append(calls, ToolServiceCall(answer.tool_calls[run.k].arguments))
                         ELSE calls
    /\ UNCHANGED speech
    /\ PipelineUnchanged

\* the service call that a tool awaits returns or raises: the tool returns its
\* result, and the for loop runs on from the next tool call
LoopToolReturns ==
    /\ tool_loop.pc = "tool"
    /\ \E ok \in BOOLEAN :
          LET tool_call == tool_loop.tool_calls[tool_loop.tool_index]
              tool_results == Append(tool_loop.tool_results,
                                     ToolResultText(tool_call,
                                                    IF ok THEN "success" ELSE "failure"))
              run == RunToolCalls(tool_loop.tool_calls, tool_loop.tool_index + 1,
                                  tool_results)
          IN /\ tool_loop' = AfterToolCalls(tool_loop, run)
             /\ calls' = IF run.at = "await"
                         THEN Append(calls,
                                     ToolServiceCall(tool_loop.tool_calls[run.k].arguments))
                         ELSE calls
    /\ UNCHANGED speech
    /\ PipelineUnchanged

\* async_process: the loop returned response_text, which becomes the speech
ProcessReturns ==
    /\ tool_loop.pc = "returned"
    /\ tool_loop.caller = "async_process"
    /\ speech' = tool_loop.result
    /\ tool_loop' = [tool_loop EXCEPT !.pc = "done"]
    /\ UNCHANGED calls
    /\ PipelineUnchanged

\* async_process: the loop raised; asyncio.TimeoutError and every other exception
\* are answered with their sentence
ProcessExcept ==
    /\ tool_loop.pc = "raised"
    /\ tool_loop.caller = "async_process"
    /\ speech' = IF tool_loop.responses[Len(tool_loop.responses)] = "timeout"
                 THEN LoopTimeoutSpeech
                 ELSE LoopErrorSpeech
    /\ tool_loop' = [tool_loop EXCEPT !.pc = "done"]
    /\ UNCHANGED calls
    /\ PipelineUnchanged

LoopNext ==
    \/ LoopRequest
    \/ LoopExhausted
    \/ LoopRaises
    \/ LoopSwitchToNoTools
    \/ LoopFinalAnswer
    \/ LoopToolCalls
    \/ LoopToolReturns
    \/ ProcessReturns
    \/ ProcessExcept

\* every request and every tool call returns or raises: a step that is possible
\* is taken
LoopSpec ==
    LoopInit /\ [][LoopNext]_vars /\ WF_vars(LoopNext)

\* ================================================================== properties

\* the results reported so far, by position
ResultIdx ==
    1..Len(results)

\* Result k reports one turn of the loop of _execute_device_control.
IsDeviceSubOp(k) ==
    origin[k].sub # 0 /\ tasks[origin[k].task].type = "device_control"

\* Result k reports a platform service call that was made.
MadeCall(k) ==
    origin[k].call # 0

\* the service call that result k reports
CallOf(k) ==
    calls[origin[k].call]

\* the (domain, service, entity_id) triple of the sub-operation that result k reports
TripleOf(k) ==
    LET task == tasks[origin[k].task]
    IN Signature(DictGet(task.service_data, "domain", "light"),
                 DictGet(task.service_data, "service", "turn_on"),
                 task.selected_entities[origin[k].sub])

\* select() has run the body of its loop on task i.
SelectorProcessed(i) ==
    \/ pc = "selector" /\ i < idx
    \/ Returned("selector") \in Range(stages)

\* execute_tasks has returned its report.
ExecutorReturned ==
    Returned("executor") \in Range(stages)

\* ------------------------------------------------------------------ C1

\* C1: every device_control task that select() has processed holds in
\* selected_entities only entity_id values of its available_entities, whatever the
\* Selector LLM returned (hard-filter path, name-matching path, failure path).
C1_SelectedSubsetOfAvailable ==
    \A i \in 1..Len(tasks) :
        (SelectorProcessed(i) /\ tasks[i].type = "device_control")
            => Range(tasks[i].selected_entities) \subseteq AvailableIds(tasks[i])

\* The LLM named an invented identifier next to a live one; the task just processed
\* kept the live one.
C1_Witness ==
    /\ pc = "selector"
    /\ idx > 1
    /\ proposal.kind = "object"
    /\ InventedLight \in Range(RawSelected(proposal))
    /\ tasks[idx - 1].type = "device_control"
    /\ tasks[idx - 1].status = "ready_for_execution"
    /\ tasks[idx - 1].selected_entities # <<>>
    /\ HardFilter(RawSelected(proposal), AvailableIds(tasks[idx - 1])) # <<>>

\* ------------------------------------------------------------------ C2

\* C2: within one execute_tasks call the service call of a (domain, service,
\* entity_id) triple is made at most once, whether the calls returned or raised.
C2_TripleCalledAtMostOnce ==
    \A j, k \in ResultIdx :
        (j < k /\ IsDeviceSubOp(j) /\ IsDeviceSubOp(k) /\ MadeCall(j) /\ MadeCall(k))
            => TripleOf(j) # TripleOf(k)

\* ------------------------------------------------------------------ C3

\* C3: a device_control sub-operation whose signature is that of an earlier
\* sub-operation whose service call returned makes no service call and is reported
\* with success = true and skipped = "duplicate"; and while every call made has
\* returned, the number of device_control calls is the number of distinct
\* signatures among the sub-operations run.
C3_DuplicateSkipped ==
    /\ \A j, k \in ResultIdx :
          (/\ j < k /\ IsDeviceSubOp(j) /\ IsDeviceSubOp(k)
           /\ TripleOf(j) = TripleOf(k)
           /\ MadeCall(j) /\ CallOf(j).ok)
              => /\ ~MadeCall(k)
                 /\ results[k].success
                 /\ DictGet(results[k], "skipped", "") = "duplicate"
    /\ (\A k \in ResultIdx : (IsDeviceSubOp(k) /\ MadeCall(k)) => CallOf(k).ok)
          => Cardinality({k \in ResultIdx : IsDeviceSubOp(k) /\ MadeCall(k)})
                = Cardinality({TripleOf(k) : k \in {n \in ResultIdx : IsDeviceSubOp(n)}})

\* Two distinct signatures, one of them named again and skipped, every call returned.
C3_Witness ==
    /\ ExecutorReturned
    /\ \A c \in Range(calls) : c.ok
    /\ \E k \in ResultIdx : IsDeviceSubOp(k) /\ DictGet(results[k], "skipped", "") = "duplicate"
    /\ Cardinality({TripleOf(k) : k \in {n \in ResultIdx : IsDeviceSubOp(n)}}) >= 2

\* ------------------------------------------------------------------ C4

\* C4: every device_control service call carries the entity_id of an entry of the
\* available_entities that the Resolver attached to the task.
C4_CallsOnlyAvailableEntities ==
    \A k \in ResultIdx :
        (IsDeviceSubOp(k) /\ MadeCall(k))
            => CallOf(k).data.entity_id \in AvailableIds(tasks[origin[k].task])

\* ------------------------------------------------------------------ C5

\* the entity_id values of the available_calendars of a task
AvailableCalendarIds(task) ==
    {task.available_calendars[i].entity_id : i \in 1..Len(task.available_calendars)}

\* C5: every calendar.create_event call targets an entry of the available_calendars
\* that the Resolver attached to the task.
C5_CreateEventOnlyOnAvailableCalendar ==
    \A k \in ResultIdx :
        (MadeCall(k) /\ CallOf(k).domain = "calendar" /\ CallOf(k).service = "create_event")
            => CallOf(k).data.entity_id \in AvailableCalendarIds(tasks[origin[k].task])

\* ------------------------------------------------------------------ C6

\* pending < awaiting_selection < ready_for_execution < {executed, failed}
StatusRank(status) ==
    CASE status = "pending" -> 0
      [] status = "awaiting_selection" -> 1
      [] status = "ready_for_execution" -> 2
      [] status \in {"executed", "failed"} -> 3

\* C6: no step of a stage sets the status of a task to a status earlier in the
\* order than the one the task had.
C6_StatusNeverRegresses ==
    [][\A i \in 1..Len(tasks) :
          i <= Len(tasks') => StatusRank(tasks'[i].status) >= StatusRank(tasks[i].status)]_vars

\* ------------------------------------------------------------------ C7

\* How far async_process is from its return: the stages still ahead, the turns
\* the running stage's loop over the tasks still has to take, and the turns the
\* Executor's inner loop over the entities or items of the current task still
\* has to take.
Progress ==
    <<CASE pc = "planner" -> 5
        [] pc = "resolver" -> 4
        [] pc = "selector" -> 3
        [] pc = "executor" -> 2
        [] pc \in {"summariser", "except"} -> 1
        [] OTHER -> 0,
      IF pc \in {"selector", "executor"} THEN Len(tasks) + 1 - idx ELSE 0,
      IF pc = "executor" /\ idx <= Len(tasks) /\ tasks[idx].status = "ready_for_execution"
      THEN CASE ExecBranch(tasks[idx]) = "device_control" ->
                    Len(tasks[idx].selected_entities) - sub
             [] ExecBranch(tasks[idx]) = "shopping_add" -> Len(tasks[idx].items) - sub
             [] ExecBranch(tasks[idx]) = "calendar_query" ->
                    IF CalendarEntities(states) = <<>> THEN 0
                    ELSE Len(CalendarEntities(states)) - sub
             [] OTHER -> 0
      ELSE 0>>

\* the lexicographic order on triples of naturals (well-founded)
LexLess(a, b) ==
    \/ a[1] < b[1]
    \/ a[1] = b[1] /\ a[2] < b[2]
    \/ a[1] = b[1] /\ a[2] = b[2] /\ a[3] < b[3]

\* C7: async_process always terminates with a ConversationResult that carries a
\* speech, and no exception leaves it: no exception propagates, a returned
\* result has a speech, async_process is never stuck before its return, and
\* every step brings it closer to the return in a well-founded order, whatever
\* the LLM calls and the service calls return or raise.
C7_AlwaysAnswers ==
    /\ [](pc # "propagated")
    /\ [](pc = "done" => speech # NoSpeech)
    /\ [](pc # "done" => ENABLED Next)
    /\ [](Progress \in Nat \X Nat \X Nat)
    /\ [][LexLess(Progress', Progress)]_vars

\* The Selector raised outside its own try, and the user still got the apology.
C7_Witness ==
    /\ pc = "done"
    /\ Raised("selector") \in Range(stages)
    /\ speech = ErrorSpeech

\* ------------------------------------------------------------------ C8

\* C8: when the Planner returned a response or an empty task list, async_process
\* ends with only the Planner invoked, no service call made, and the speech is the
\* Planner's response (the fixed sentence for an empty list).
C8_ConversationalShortCircuit ==
    ("response" \in DOMAIN planned \/ ("tasks" \in DOMAIN planned /\ planned.tasks = 0))
        => /\ pc = "done"
           /\ stages = <<Called("planner"), Returned("planner")>>
           /\ calls = <<>>
           /\ llm_calls = <<<<"planner", 0>>>>
           /\ results = <<>>
           /\ speech = IF "response" \in DOMAIN planned
                       THEN <<planned.response>> ELSE <<NotSureHowToHelp>>

\* The Planner's LLM call failed: its apology is the answer.
C8_Witness ==
    /\ pc = "done"
    /\ "response" \in DOMAIN planned
    /\ speech = <<PlannerApologyRephrase>>

\* ------------------------------------------------------------------ C9

\* the stages in the order of one utterance, each called and returned once
CanonicalStages ==
    <<Called("planner"), Returned("planner"),
      Called("resolver"), Returned("resolver"),
      Called("selector"), Returned("selector"),
      Called("executor"), Returned("executor"),
      Called("summariser"), Returned("summariser")>>

IsPrefix(s, t) ==
    Len(s) <= Len(t) /\ \A i \in 1..Len(s) : s[i] = t[i]

\* C9: the stages are called in the order Planner, Resolver, Selector, Executor,
\* Summariser, each at most once and each after the stage before it has returned:
\* the log of calls and returns is a prefix of the canonical one, or such a prefix
\* ending with a call, followed by the raise of the stage called.
C9_StagesInOrder ==
    \/ IsPrefix(stages, CanonicalStages)
    \/ /\ Len(stages) >= 2
       /\ stages[Len(stages)].ev = "raise"
       /\ stages[Len(stages) - 1] = Called(stages[Len(stages)].stage)
       /\ IsPrefix(SubSeq(stages, 1, Len(stages) - 1), CanonicalStages)

\* All five stages have run.
C9_Witness ==
    pc = "done" /\ stages = CanonicalStages

\* ------------------------------------------------------------------ C10

\* the results that report task i, by position
ResultsOfTask(i) ==
    {k \in ResultIdx : origin[k].task = i}

\* C10: once execute_tasks has returned, every ready_for_execution device_control
\* task with n >= 1 selected entities has n results, the s-th for its s-th entity,
\* with success = false and the error text where the call raised; every
\* ready_for_execution shopping_add task has one result per item and every other
\* ready_for_execution task has a result; and a batch of one device_control task
\* with 2 selected entities of which exactly one call raised is reported with
\* successful_operations = 1 and failed_operations = 1.
C10_PartialFailure ==
    ExecutorReturned =>
        /\ \A i \in 1..Len(tasks) :
              tasks[i].status = "ready_for_execution" =>
                 CASE ExecBranch(tasks[i]) = "device_control" ->
                        /\ Cardinality(ResultsOfTask(i)) = Len(tasks[i].selected_entities)
                        /\ \A s \in 1..Len(tasks[i].selected_entities) :
                              \E k \in ResultsOfTask(i) :
                                 /\ origin[k].sub = s
                                 /\ results[k].entity = tasks[i].selected_entities[s]
                                 /\ (MadeCall(k) /\ ~CallOf(k).ok)
                                       => /\ ~results[k].success
                                          /\ results[k].error = ServiceErrorText
                                 /\ \A n \in ResultsOfTask(i) : origin[n].sub < s => n < k
                   [] ExecBranch(tasks[i]) = "shopping_add" ->
                        Cardinality(ResultsOfTask(i)) = Len(tasks[i].items)
                   [] OTHER ->
                        Cardinality(ResultsOfTask(i)) >= 1
        /\ (/\ Len(tasks) = 1
            /\ tasks[1].status = "ready_for_execution"
            /\ tasks[1].type = "device_control"
            /\ Len(tasks[1].selected_entities) = 2
            /\ Cardinality({n \in 1..Len(calls) : ~calls[n].ok}) = 1)
              => /\ report.successful_operations = 1
                 /\ report.failed_operations = 1

\* Two tasks; the call for the first entity of the first task raised, the second
\* entity was still called, and the second task still got its result.
C10_Witness ==
    /\ ExecutorReturned
    /\ Len(tasks) = 2
    /\ tasks[1].type = "device_control"
    /\ tasks[1].status = "ready_for_execution"
    /\ Len(tasks[1].selected_entities) = 2
    /\ \E k \in ResultsOfTask(1) : origin[k].sub = 1 /\ MadeCall(k) /\ ~CallOf(k).ok
    /\ \E k \in ResultsOfTask(1) : origin[k].sub = 2 /\ MadeCall(k) /\ CallOf(k).ok
    /\ tasks[2].status = "ready_for_execution"
    /\ ResultsOfTask(2) # {}

\* ------------------------------------------------------------------ C11

\* C11: execute_tasks makes no service call and appends no result for a task whose
\* status is not ready_for_execution (pending, awaiting_selection, failed,
\* executed, or no status): every result and every service call belongs to a
\* ready_for_execution task.
C11_OnlyReadyTasksExecuted ==
    /\ \A k \in ResultIdx : tasks[origin[k].task].status = "ready_for_execution"
    /\ \A n \in 1..Len(calls) : tasks[calls[n].task].status = "ready_for_execution"
    /\ ExecutorReturned =>
          \A i \in 1..Len(tasks) :
             tasks[i].status # "ready_for_execution" => ResultsOfTask(i) = {}

\* A pending task with a selected entity was skipped, the ready task after it ran.
C11_Witness ==
    /\ ExecutorReturned
    /\ Len(tasks) = 2
    /\ tasks[1].status = "pending"
    /\ tasks[1].type = "device_control"
    /\ tasks[1].selected_entities # <<>>
    /\ tasks[2].status = "ready_for_execution"
    /\ ResultsOfTask(1) = {}
    /\ ResultsOfTask(2) # {}
    /\ calls # <<>>

\* ------------------------------------------------------------------ C12

\* C12: once execute_tasks has returned, a ready_for_execution task whose type
\* _execute_task has no branch for has exactly one result, with success = false
\* and the error "Unknown task type: <type>", and no service call; and every
\* ready_for_execution task of the batch, before or after it, has its results.
C12_UnknownTypeFailsAlone ==
    ExecutorReturned =>
        \A i \in 1..Len(tasks) :
            (tasks[i].status = "ready_for_execution" /\ tasks[i].type \notin ExecutorTypes)
               => /\ Cardinality(ResultsOfTask(i)) = 1
                  /\ \A k \in ResultsOfTask(i) :
                        /\ ~results[k].success
                        /\ results[k].error = <<"Unknown task type: ", tasks[i].type>>
                        /\ ~MadeCall(k)
                  /\ \A j \in 1..Len(tasks) :
                        (/\ tasks[j].status = "ready_for_execution"
                         /\ ~(tasks[j].type = "shopping_add" /\ tasks[j].items = <<>>))
                            => ResultsOfTask(j) # {}

\* A task of the type "dance" failed, the device_control task after it was called.
C12_Witness ==
    /\ ExecutorReturned
    /\ Len(tasks) = 2
    /\ tasks[1].status = "ready_for_execution"
    /\ tasks[1].type = "dance"
    /\ tasks[2].status = "ready_for_execution"
    /\ tasks[2].type = "device_control"
    /\ \E k \in ResultsOfTask(2) : MadeCall(k) /\ CallOf(k).ok

\* ------------------------------------------------------------------ C13

\* the nine task types of the enumeration
EnumeratedTypes ==
    {"device_control", "timer_start", "shopping_add", "shopping_query",
     "shopping_remove", "calendar_query", "calendar_create", "memory_read",
     "memory_write"}

\* C13: the "Unknown task type" failure is reported only for a task whose type is
\* outside the enumeration of the nine task types.
C13_EnumeratedTypesHandled ==
    \A k \in ResultIdx :
        (\E t \in EnumeratedTypes \cup {"dance", None} :
              DictGet(results[k], "error", <<>>) = <<"Unknown task type: ", t>>)
            => tasks[origin[k].task].type \notin EnumeratedTypes

\* ------------------------------------------------------------------ C14

\* C14: the report of execute_tasks counts in successful_operations the results
\* with success true, in failed_operations the other results, and in total_tasks
\* the tasks handed in, the skipped ones included; its results are the results.
C14_ReportCounts ==
    ExecutorReturned =>
        /\ report.successful_operations
              = Cardinality({k \in ResultIdx : results[k].success})
        /\ report.successful_operations + report.failed_operations = Len(results)
        /\ report.total_tasks = Len(tasks)
        /\ report.results = results

\* Two tasks, one skipped; of the two results of the other, one succeeded and
\* one failed.
C14_Witness ==
    /\ ExecutorReturned
    /\ Len(tasks) = 2
    /\ \E i \in 1..2 : tasks[i].status # "ready_for_execution"
    /\ report.total_tasks = 2
    /\ report.successful_operations >= 1
    /\ report.failed_operations >= 1

\* ------------------------------------------------------------------ C15

\* C15: plan() never raises to its caller, whatever the LLM call returned or raised.
C15_PlanNeverRaises ==
    Raised("planner") \notin Range(stages)

\* ------------------------------------------------------------------ C16

\* C16: after plan() has returned a task list, every task has an id and the ids of
\* the batch are pairwise distinct.
C16_IdsDistinct ==
    /\ \A i \in 1..Len(tasks) : tasks[i].id # None
    /\ \A i, j \in 1..Len(tasks) : i # j => tasks[i].id # tasks[j].id

\* ------------------------------------------------------------------ C17

\* C17: a step of select() keeps the length and the order of the task list, leaves
\* every task but the one its loop is at as it is, and for a task whose status is
\* not awaiting_selection makes no LLM call and changes no field.
C17_OnlyAwaitingTasksTouched ==
    [][pc = "selector" =>
          /\ Len(tasks') = Len(tasks)
          /\ \A i \in 1..Len(tasks) :
                (i # idx \/ tasks[i].status # "awaiting_selection") => tasks'[i] = tasks[i]
          /\ llm_calls' # llm_calls =>
                /\ idx <= Len(tasks)
                /\ tasks[idx].status = "awaiting_selection"
                /\ llm_calls' = Append(llm_calls, <<"selector", idx>>)]_vars

\* select() returned: the pending device_control task with its candidates is as it
\* was and no LLM call was made for it; the task after it was selected.
C17_Witness ==
    /\ Returned("selector") \in Range(stages)
    /\ Len(tasks) = 2
    /\ tasks[1].type = "device_control"
    /\ tasks[1].status = "pending"
    /\ tasks[1].available_entities # <<>>
    /\ tasks[1].selected_entities = <<>>
    /\ tasks[2].type = "device_control"
    /\ tasks[2].status = "ready_for_execution"
    /\ llm_calls = <<<<"selector", 2>>>>

\* ------------------------------------------------------------------ C18

\* C18: the turn of select() on a device_control task in awaiting_selection leaves
\* the task failed with selected_entities = [] and service_data = {} when the LLM
\* call raised, and ready_for_execution in every other case.
C18_FailedOnlyWhenLLMRaises ==
    [][(/\ pc = "selector"
        /\ idx <= Len(tasks)
        /\ NeedsSelectorLLM(tasks[idx])
        /\ llm_calls' # llm_calls)
          => IF proposal'.kind = "raise"
             THEN /\ tasks'[idx].status = "failed"
                  /\ tasks'[idx].selected_entities = <<>>
                  /\ tasks'[idx].service_data = EmptyDict
             ELSE tasks'[idx].status = "ready_for_execution"]_vars

\* ------------------------------------------------------------------ C19

\* an LLM result that names nothing
NoAnswer ==
    [kind |-> "object", obj |-> EmptyDict]

\* C19: whatever object the Selector LLM returned for a device_control task
\* (selected_entities, service_data of its own), the task that the turn of
\* select() leaves differs from the one an empty LLM result leaves in
\* selected_entities only: its service_data is decided by the task alone.
C19_ServiceDataFromTaskOnly ==
    [][(/\ pc = "selector"
        /\ idx <= Len(tasks)
        /\ NeedsSelectorLLM(tasks[idx])
        /\ llm_calls' # llm_calls
        /\ proposal'.kind = "object")
          => /\ tasks'[idx].service_data = SelectTask(tasks[idx], NoAnswer).service_data
             /\ [tasks'[idx] EXCEPT !.selected_entities = <<>>]
                   = [SelectTask(tasks[idx], NoAnswer) EXCEPT !.selected_entities = <<>>]]_vars

\* The LLM result carried a service_data of its own (lock.unlock); the task just
\* selected has the service of its own action.
C19_Witness ==
    /\ pc = "selector"
    /\ idx > 1
    /\ proposal.kind = "object"
    /\ "service_data" \in DOMAIN proposal.obj
    /\ tasks[idx - 1].type = "device_control"
    /\ tasks[idx - 1].status = "ready_for_execution"
    /\ tasks[idx - 1].selected_entities # <<>>
    /\ tasks[idx - 1].service_data.service = "turn_on"
    /\ tasks[idx - 1].service_data # proposal.obj.service_data

\* ------------------------------------------------------------------ C20

\* summarise() has returned.
SummariserReturned ==
    Returned("summariser") \in Range(stages)

\* C20: summarise() never raises and returns a non-empty text; when its LLM call
\* raised or returned an empty text, the text is one of four sentences, chosen and
\* filled by successful_operations and failed_operations alone.
C20_SummaryAlwaysThere ==
    /\ Raised("summariser") \notin Range(stages)
    /\ SummariserReturned =>
          /\ speech # NoSpeech
          /\ speech[1] # ""
          /\ (proposal.kind = "raise" \/ proposal.text = "") =>
                LET s == report.successful_operations
                    f == report.failed_operations
                IN speech =
                      CASE s > 0 /\ f = 0 -> <<"Done! Completed ", s, " action(s) successfully.">>
                        [] s > 0 /\ f > 0 -> <<"Completed ", s, " action(s), but ", f, " failed.">>
                        [] s = 0 /\ f > 0 -> <<"Sorry, ", f, " action(s) failed.">>
                        [] s = 0 /\ f = 0 -> <<"No actions were performed.">>

\* The LLM call of the Summariser raised after one success and one failure.
C20_Witness ==
    /\ SummariserReturned
    /\ proposal.kind = "raise"
    /\ report.successful_operations = 1
    /\ report.failed_operations = 1
    /\ speech = <<"Completed ", 1, " action(s), but ", 1, " failed.">>

\* ------------------------------------------------------------------ C21

\* The entities a reply says an action was done on. The fallback sentences name
\* counts only; the text of the Summariser LLM names the Regallampe.
ClaimedEntities(reply) ==
    IF reply = <<"Ich habe die Regallampe eingeschaltet.">>
    THEN {StLightRegal.entity_id}
    ELSE {}

\* C21: the reply that summarise() returns claims no action that the report does
\* not hold with success = true: every entity the reply names as acted on has a
\* result with success = true in the report.
C21_ReplyClaimsOnlySuccesses ==
    SummariserReturned =>
        \A e \in ClaimedEntities(speech) :
            \E k \in 1..Len(report.results) :
                /\ DictGet(report.results[k], "entity", None) = e
                /\ DictGet(report.results[k], "success", FALSE)

\* ------------------------------------------------------------------ C22

\* The Planner returned the one task of the scenario "Schalte Regallampe und
\* Schranklampe an", both lamps are live, and the Selector left both selected.
BothLampsScenario ==
    /\ {StLightRegal, StLightSchrank} \subseteq Range(states)
    /\ Len(tasks) = 1
    /\ tasks[1].type = "device_control"
    /\ tasks[1].action = "turn_on"
    /\ tasks[1].domain = "light"
    /\ tasks[1].raw_targets = <<TxtRegallampe, TxtSchranklampe>>
    /\ Len(tasks[1].selected_entities) = 2
    /\ Range(tasks[1].selected_entities) =
           {StLightRegal.entity_id, StLightSchrank.entity_id}

\* C22: in the scenario of the two lamps, when execute_tasks has returned, exactly
\* two service calls were made, both light.turn_on, one per lamp, in the order of
\* the selection and with no parameter but the entity_id; when both calls returned,
\* the report has successful_operations = 2 and failed_operations = 0.
C22_BothLampsTurnedOn ==
    (ExecutorReturned /\ BothLampsScenario) =>
        /\ Len(calls) = 2
        /\ \A k \in 1..2 :
              /\ calls[k].domain = "light"
              /\ calls[k].service = "turn_on"
              /\ calls[k].data = [entity_id |-> tasks[1].selected_entities[k]]
        /\ (calls[1].ok /\ calls[2].ok) =>
              /\ report.total_tasks = 1
              /\ report.successful_operations = 2
              /\ report.failed_operations = 0
              /\ Len(report.results) = 2
              /\ \A k \in 1..2 :
                    /\ report.results[k].entity = tasks[1].selected_entities[k]
                    /\ report.results[k].success

\* The scenario ran to the report, with both calls successful.
C22_Witness ==
    /\ ExecutorReturned
    /\ BothLampsScenario
    /\ Len(calls) = 2
    /\ calls[1].ok /\ calls[2].ok
    /\ calls[1].data.entity_id = StLightRegal.entity_id
    /\ calls[2].data.entity_id = StLightSchrank.entity_id
    /\ report.successful_operations = 2
    /\ report.failed_operations = 0

\* ------------------------------------------------------------------ C23

\* C23: no step of execute_tasks and no step of summarise changes the task list:
\* every field of every task, status included, stays as the Selector left it.
C23_ExecutorSummariserReadOnly ==
    [][(pc \in {"executor", "summariser"}) => (tasks' = tasks)]_vars

\* The pipeline ended with a reply after a successful service call for the first
\* task, which still has the status and the selection the Selector gave it.
C23_Witness ==
    /\ pc = "done"
    /\ SummariserReturned
    /\ Len(tasks) = 2
    /\ tasks[1].type = "device_control"
    /\ tasks[1].status = "ready_for_execution"
    /\ tasks[1].selected_entities = <<StLightRegal.entity_id>>
    /\ Len(calls) >= 1
    /\ calls[1].ok
    /\ tasks[2].status = "failed"

\* ------------------------------------------------------------------ C24

\* the positions of the candidates of a task whose lower-cased friendly_name
\* contains a lower-cased raw target
NameMatches(task) ==
    {i \in 1..Len(task.available_entities) :
        \E t \in 1..Len(task.raw_targets) :
            Contains(Lower(task.available_entities[i].friendly_name),
                     Lower(task.raw_targets[t]))}

\* the k-th smallest element of a set of positions
KthOf(S, k) ==
    CHOOSE i \in S : Cardinality({j \in S : j < i}) = k - 1

\* the positions of the identifiers of the LLM result that are candidates of the task
ValidProposed(task, llm) ==
    {p \in 1..Len(RawSelected(llm)) :
        \E i \in 1..Len(task.available_entities) :
            task.available_entities[i].entity_id = RawSelected(llm)[p]}

\* C24: in the turn of select() on a device_control task whose LLM call returned an
\* object: when the LLM named at least one candidate, the selection is the named
\* candidates in the order of the LLM and name matching adds nothing; when it
\* named none and available_entities and raw_targets are both non-empty, the
\* selection is exactly the candidates whose lower-cased friendly_name contains a
\* lower-cased raw target, each once and in candidate order; otherwise it is empty.
C24_NameMatchingOnlyAsFallback ==
    [][(/\ pc = "selector"
        /\ idx <= Len(tasks)
        /\ NeedsSelectorLLM(tasks[idx])
        /\ llm_calls' # llm_calls
        /\ proposal'.kind = "object")
          => LET task == tasks[idx]
                 sel == tasks'[idx].selected_entities
                 valid == ValidProposed(task, proposal')
                 hits == NameMatches(task)
             IN IF valid # {}
                THEN /\ Len(sel) = Cardinality(valid)
                     /\ \A k \in 1..Len(sel) :
                           sel[k] = RawSelected(proposal')[KthOf(valid, k)]
                ELSE IF task.available_entities # <<>> /\ task.raw_targets # <<>>
                THEN /\ Len(sel) = Cardinality(hits)
                     /\ \A k \in 1..Len(sel) :
                           sel[k] = task.available_entities[KthOf(hits, k)].entity_id
                ELSE sel = <<>>]_vars

\* The LLM named an invented identifier only; name matching selected the
\* Regallampe, the one of the two candidates whose name contains "regal".
C24_Witness ==
    /\ pc = "selector"
    /\ idx = 2
    /\ proposal = [kind |-> "object", obj |-> [selected_entities |-> <<InventedLight>>]]
    /\ tasks[1].raw_targets = <<TxtRegal>>
    /\ Len(tasks[1].available_entities) = 2
    /\ tasks[1].selected_entities = <<StLightRegal.entity_id>>
    /\ tasks[1].status = "ready_for_execution"

\* ------------------------------------------------------------------ C25

\* C25: the turn of select() on a calendar_create task in awaiting_selection makes
\* no LLM call, sets selected_calendar to None when available_calendars is empty,
\* to the entity_id of the only calendar when there is one, to the entity_id of the
\* first calendar when there are several, and sets the status ready_for_execution.
C25_CalendarSelectedWithoutLLM ==
    [][(/\ pc = "selector"
        /\ idx <= Len(tasks)
        /\ tasks[idx].type = "calendar_create"
        /\ tasks[idx].status = "awaiting_selection")
          => LET n == Len(tasks[idx].available_calendars)
             IN /\ llm_calls' = llm_calls
                /\ tasks'[idx].status = "ready_for_execution"
                /\ n = 0 => tasks'[idx].selected_calendar = None
                /\ n = 1 => tasks'[idx].selected_calendar =
                                tasks[idx].available_calendars[1].entity_id
                /\ n > 1 => tasks'[idx].selected_calendar =
                                tasks[idx].available_calendars[1].entity_id]_vars

\* select() has handled a task with no calendar (its selected_calendar is now None)
\* and a task with two calendars (the first is selected), without an LLM call.
C25_Witness ==
    /\ pc = "selector"
    /\ idx = 3
    /\ llm_calls = <<>>
    /\ tasks[1].type = "calendar_create"
    /\ tasks[1].available_calendars = <<>>
    /\ tasks[1].selected_calendar = None
    /\ tasks[1].status = "ready_for_execution"
    /\ tasks[2].type = "calendar_create"
    /\ Len(tasks[2].available_calendars) = 2
    /\ tasks[2].selected_calendar = StCalHome.entity_id
    /\ tasks[2].status = "ready_for_execution"

\* select() has handled a task with exactly one calendar, which is selected.
C25_WitnessSingle ==
    /\ pc = "selector"
    /\ idx = 2
    /\ llm_calls = <<>>
    /\ tasks[1].type = "calendar_create"
    /\ Len(tasks[1].available_calendars) = 1
    /\ tasks[1].selected_calendar = StCalWork.entity_id
    /\ tasks[1].status = "ready_for_execution"

\* ------------------------------------------------------------------ C26

\* the registry holds no calendar.* entity
NoLiveCalendar ==
    \A i \in 1..Len(states) : states[i].prefix # "calendar"

\* C26: when the platform has no calendar entity and execute_tasks has returned,
\* every calendar_create task is ready_for_execution with no candidates attached,
\* has exactly one result, which is a failure with the error "No calendar
\* selected", and no calendar.create_event call was made.
C26_NoCalendarFailsAtExecution ==
    (ExecutorReturned /\ NoLiveCalendar) =>
        /\ \A i \in 1..Len(tasks) :
              tasks[i].type = "calendar_create" =>
                 /\ tasks[i].status = "ready_for_execution"
                 /\ tasks[i].available_calendars = <<>>
                 /\ Cardinality(ResultsOfTask(i)) = 1
                 /\ \A k \in ResultsOfTask(i) :
                       /\ ~results[k].success
                       /\ DictGet(results[k], "error", None) = <<"No calendar selected">>
        /\ \A c \in 1..Len(calls) :
              ~(calls[c].domain = "calendar" /\ calls[c].service = "create_event")

\* ------------------------------------------------------------------ C27

\* the positions in calls of the service calls made for task i, in order
CallsOfTask(i) ==
    SelectSeq([n \in 1..Len(calls) |-> n], LAMBDA n : calls[n].task = i)

\* the raw events that the get_events call c returned for its calendar (none when
\* the call raised)
ReturnedEvents(c) ==
    IF /\ c.ok
       /\ c.data.entity_id \in DOMAIN c.response
       /\ "events" \in DOMAIN c.response[c.data.entity_id]
    THEN c.response[c.data.entity_id].events
    ELSE <<>>

\* for each returned event of the calls at the positions ns, in order: its
\* calendar and its summary
RECURSIVE ReturnedSummaries(_)
ReturnedSummaries(ns) ==
    IF ns = <<>> THEN <<>>
    ELSE [j \in 1..Len(ReturnedEvents(calls[ns[1]])) |->
             <<calls[ns[1]].data.entity_id, ReturnedEvents(calls[ns[1]])[j].summary>>]
         \o ReturnedSummaries(Tail(ns))

\* C27: once execute_tasks has returned, for every ready_for_execution
\* calendar_query task with start_iso and end_iso set, when a calendar is live:
\* one calendar.get_events call was made per live calendar.* entity, in registry
\* order and with the window of the task, whether or not an earlier one raised;
\* the task has exactly one result, with success = true, whose events are the
\* events returned by the calls that did not raise, in order.
C27_CalendarQueryFansOut ==
    ExecutorReturned =>
        \A i \in 1..Len(tasks) :
            (/\ tasks[i].type = "calendar_query"
             /\ tasks[i].status = "ready_for_execution"
             /\ HasQueryWindow(tasks[i])
             /\ CalendarEntities(states) # <<>>)
            => LET ns == CallsOfTask(i)
               IN /\ Len(ns) = Len(CalendarEntities(states))
                  /\ \A j \in 1..Len(ns) :
                        /\ calls[ns[j]].domain = "calendar"
                        /\ calls[ns[j]].service = "get_events"
                        /\ calls[ns[j]].data =
                              [entity_id |-> CalendarEntities(states)[j],
                               start_date_time |-> tasks[i].extra.start_iso,
                               end_date_time |-> tasks[i].extra.end_iso]
                  /\ Cardinality(ResultsOfTask(i)) = 1
                  /\ \A k \in ResultsOfTask(i) :
                        /\ results[k].success
                        /\ [j \in 1..Len(results[k].events) |->
                               <<results[k].events[j].calendar,
                                 results[k].events[j].summary>>]
                           = ReturnedSummaries(ns)

\* Two calendars are live; the query of the first raised, the query of the second
\* returned two events: the task has one successful result with these two events.
C27_Witness ==
    /\ ExecutorReturned
    /\ Len(tasks) = 1
    /\ tasks[1].type = "calendar_query"
    /\ Len(calls) = 2
    /\ ~calls[1].ok
    /\ calls[1].data.entity_id = StCalHome.entity_id
    /\ calls[2].ok
    /\ calls[2].data.entity_id = StCalWork.entity_id
    /\ Len(results) = 1
    /\ results[1].success
    /\ Len(results[1].events) = 2
    /\ results[1].events[1].calendar = StCalWork.entity_id
    /\ results[1].events[1].summary = "Kino"
    /\ report.successful_operations = 1
    /\ report.failed_operations = 0

\* Both queries raised and the task still has a successful result, with no event.
C27_WitnessAllFailed ==
    /\ ExecutorReturned
    /\ Len(tasks) = 1
    /\ tasks[1].type = "calendar_query"
    /\ Len(calls) = 2
    /\ ~calls[1].ok
    /\ ~calls[2].ok
    /\ Len(results) = 1
    /\ results[1].success
    /\ results[1].events = <<>>

\* ------------------------------------------------------------------ C28

\* the fixed error of the task types the Executor does not implement
NotImplementedText(type) ==
    IF type = "shopping_remove"
    THEN <<"Shopping remove not yet fully implemented">>
    ELSE <<"Memory operations not yet integrated">>

\* C28: the step of execute_tasks on a ready_for_execution task of type
\* shopping_remove, memory_read or memory_write appends exactly one result, with
\* success = false and the fixed error of the type, makes no service call and
\* changes neither the registry nor the task list.
C28_UnimplementedTypesFailFixed ==
    [][(/\ pc = "executor"
        /\ idx <= Len(tasks)
        /\ tasks[idx].status = "ready_for_execution"
        /\ tasks[idx].type \in {"shopping_remove", "memory_read", "memory_write"})
          => /\ Len(results') = Len(results) + 1
             /\ SubSeq(results', 1, Len(results)) = results
             /\ results'[Len(results')].task_type = tasks[idx].type
             /\ results'[Len(results')].success = FALSE
             /\ results'[Len(results')].error = NotImplementedText(tasks[idx].type)
             /\ calls' = calls
             /\ states' = states
             /\ tasks' = tasks
             /\ idx' = idx + 1]_vars

\* execute_tasks returned for a shopping_remove and a memory_write task: two
\* failures with the fixed errors, no service call.
C28_Witness ==
    /\ ExecutorReturned
    /\ Len(tasks) = 2
    /\ tasks[1].type = "shopping_remove"
    /\ tasks[2].type = "memory_write"
    /\ Len(results) = 2
    /\ results[1].error = <<"Shopping remove not yet fully implemented">>
    /\ results[2].error = <<"Memory operations not yet integrated">>
    /\ ~results[1].success /\ ~results[2].success
    /\ calls = <<>>
    /\ report.successful_operations = 0
    /\ report.failed_operations = 2

\* ------------------------------------------------------------------ C29

\* (task a, position x) comes before (task b, position y)
Before(a, x, b, y) ==
    a < b \/ (a = b /\ x < y)

\* C29: the service calls are made one after the other in the order of the task
\* list and, within a task, in the order of its selected_entities (items,
\* calendars): every call in the log has returned or raised before the next one
\* is made, a device_control call is for the entity at its position of
\* selected_entities (unless the service parameters of the task carry an entity_id
\* of their own), and the results stand in the report in the same order as the
\* sub-operations and the calls they report.
C29_CallsInSourceOrder ==
    /\ \A m, n \in 1..Len(calls) :
          m < n => Before(calls[m].task, calls[m].sub, calls[n].task, calls[n].sub)
    /\ \A n \in 1..Len(calls) :
          /\ calls[n].ok \in BOOLEAN
          /\ pc = "executor" => calls[n].task <= idx
          /\ tasks[calls[n].task].type = "device_control" =>
                /\ "entity_id" \notin DOMAIN DictGet(tasks[calls[n].task].service_data,
                                                     "data", EmptyDict)
                      => calls[n].data.entity_id =
                            tasks[calls[n].task].selected_entities[calls[n].sub]
                /\ \E k \in ResultIdx : origin[k].call = n
    /\ \A j, k \in ResultIdx :
          j < k =>
             /\ Before(origin[j].task, origin[j].sub, origin[k].task, origin[k].sub)
             /\ (MadeCall(j) /\ MadeCall(k)) => origin[j].call < origin[k].call
    /\ \A k \in ResultIdx :
          IsDeviceSubOp(k) =>
             /\ results[k].entity = tasks[origin[k].task].selected_entities[origin[k].sub]
             /\ MadeCall(k) =>
                   /\ CallOf(k).task = origin[k].task
                   /\ CallOf(k).sub = origin[k].sub
    /\ ExecutorReturned => report.results = results

\* execute_tasks returned after the calls for both lamps of the first task (the
\* first raised) and then for both items of the second task.
C29_Witness ==
    /\ ExecutorReturned
    /\ Len(tasks) = 2
    /\ tasks[1].selected_entities = <<StLightRegal.entity_id, StLightSchrank.entity_id>>
    /\ tasks[2].type = "shopping_add"
    /\ Len(calls) = 4
    /\ calls[1].data.entity_id = StLightRegal.entity_id /\ ~calls[1].ok
    /\ calls[2].data.entity_id = StLightSchrank.entity_id /\ calls[2].ok
    /\ calls[3].service = "add_item" /\ calls[3].sub = 1
    /\ calls[4].service = "add_item" /\ calls[4].sub = 2
    /\ Len(report.results) = 4
    /\ report.results[1].entity = StLightRegal.entity_id
    /\ report.results[2].entity = StLightSchrank.entity_id

\* ------------------------------------------------------------------ C30

\* the number of LLM calls in the log that equal c
CountLLMCalls(c) ==
    Cardinality({n \in 1..Len(llm_calls) : llm_calls[n] = c})

\* The log of LLM calls of the utterance: one Planner call once the Planner has
\* run, at most one Selector call per task and only for device_control tasks that
\* the loop of select() has reached, at most one Summariser call, and no other.
LLMCallsAtMostOnce ==
    /\ CountLLMCalls(<<"planner", 0>>) = (IF pc = "planner" THEN 0 ELSE 1)
    /\ CountLLMCalls(<<"summariser", 0>>) = (IF SummariserReturned THEN 1 ELSE 0)
    /\ \A n \in 1..Len(llm_calls) :
          \/ llm_calls[n] \in {<<"planner", 0>>, <<"summariser", 0>>}
          \/ /\ llm_calls[n][1] = "selector"
             /\ llm_calls[n][2] \in 1..Len(tasks)
             /\ tasks[llm_calls[n][2]].type = "device_control"
             /\ CountLLMCalls(llm_calls[n]) = 1

\* C30: no LLM call is made twice in a pipeline pass. Every step keeps the log of
\* LLM calls within LLMCallsAtMostOnce; a Selector step calls the LLM exactly when
\* the task it is at is a device_control task in awaiting_selection, once, also
\* when the call raises; the steps of the Resolver and of the Executor make no
\* LLM call.
C30_NoLLMRetry ==
    [][/\ LLMCallsAtMostOnce'
       /\ Len(llm_calls') <= Len(llm_calls) + 1
       /\ (pc \in {"resolver", "executor", "except"}) => (llm_calls' = llm_calls)
       /\ (pc = "selector" /\ idx <= Len(tasks)) =>
             IF tasks[idx].type = "device_control"
                /\ tasks[idx].status = "awaiting_selection"
             THEN /\ llm_calls' = Append(llm_calls, <<"selector", idx>>)
                  /\ (pc' = "selector") => (idx' = idx + 1)
             ELSE llm_calls' = llm_calls]_vars

\* The pipeline ended with a reply: one Planner call, one Selector call for each
\* of the two device_control tasks (the first raised and left its task failed),
\* one Summariser call (which raised).
C30_Witness ==
    /\ pc = "done"
    /\ SummariserReturned
    /\ Len(tasks) = 2
    /\ tasks[1].type = "device_control" /\ tasks[1].status = "failed"
    /\ tasks[2].type = "device_control" /\ tasks[2].status = "ready_for_execution"
    /\ llm_calls = << <<"planner", 0>>, <<"selector", 1>>, <<"selector", 2>>,
                      <<"summariser", 0>> >>
    /\ proposal.kind = "raise"

\* ------------------------------------------------------------------ claims C31..C40

\* the calendar_query tasks that resolve_tasks has resolved
ResolvedQueries ==
    IF pc = "resolver" THEN {}
    ELSE {i \in 1..Len(tasks) : tasks[i].type = "calendar_query"}

\* the datetime that an isoformat() text of the model stands for
DtOfIso(iso) ==
    CHOOSE dt \in [day : DOMAIN IsoMidnights, tod : {Midnight, Afternoon}] :
        IsoFormat(dt) = iso

\* the query window of a resolved task, as datetimes
WindowStart(task) ==
    DtOfIso(task.extra.start_iso)
WindowEnd(task) ==
    DtOfIso(task.extra.end_iso)

\* the two dates were given and name the same day
SameDayGiven(task) ==
    /\ TaskStart(task) # <<>>
    /\ TaskEnd(task) # <<>>
    /\ ParseDate(TaskStart(task), now) = ParseDate(TaskEnd(task), now)

\* C31: a resolved calendar_query has start_iso and end_iso; with no end date its
\* window ends 7 days after its start, and with a start and an end that name the
\* same day (in the same words or in different ones) it ends 1 day after its start.
C31_QueryWindowNeverEmpty ==
    \A i \in ResolvedQueries :
        /\ {"start_iso", "end_iso"} \subseteq DOMAIN tasks[i].extra
        /\ (TaskEnd(tasks[i]) = <<>>) =>
              (WindowEnd(tasks[i]) = PlusDays(WindowStart(tasks[i]), 7))
        /\ SameDayGiven(tasks[i]) =>
              (WindowEnd(tasks[i]) = PlusDays(WindowStart(tasks[i]), 1))

\* the part of it that the code keeps: the status, the two keys, the 7 days of a
\* missing end, and the 1 day of an end written with the very text of the start
C31_QueryWindowOfEqualTexts ==
    \A i \in ResolvedQueries :
        /\ tasks[i].status = "ready_for_execution"
        /\ {"start_iso", "end_iso"} \subseteq DOMAIN tasks[i].extra
        /\ (TaskEnd(tasks[i]) = <<>>) =>
              (WindowEnd(tasks[i]) = PlusDays(WindowStart(tasks[i]), 7))
        /\ (TaskStart(tasks[i]) # <<>> /\ TaskStart(tasks[i]) = TaskEnd(tasks[i])) =>
              (WindowEnd(tasks[i]) = PlusDays(WindowStart(tasks[i]), 1))

\* a resolved query from "today" to "heute": its window is empty
C31_EmptyWindow ==
    \E i \in ResolvedQueries :
        /\ TaskStart(tasks[i]) = TxtToday
        /\ TaskEnd(tasks[i]) = TxtHeute
        /\ tasks[i].extra.end_iso = tasks[i].extra.start_iso

\* ------------------------------------------------------------------ C32

\* the timer_start tasks that resolve_tasks has resolved
ResolvedTimers ==
    IF pc = "resolver" THEN {}
    ELSE {i \in 1..Len(tasks) : tasks[i].type = "timer_start"}

\* the positions of s where a number starts that a recognised unit follows
NumberUnitAt(s) ==
    {p \in 1..Len(s) :
        /\ s[p] \in Digits
        /\ (p = 1 \/ s[p - 1] \notin Digits)
        /\ UnitAt(s, p + DigitRun(s, p) + WsRun(s, p + DigitRun(s, p))) # <<>>}

\* seconds of one unit: second/sekunde(n) 1, minute/minuten 60, hour/stunde(n) 3600
UnitSeconds(unit) ==
    IF unit[1] = "s" /\ unit[2] = "e" THEN 1
    ELSE IF unit[1] = "m" THEN 60
    ELSE 3600

\* what a duration text is worth by the rule: the number times its unit when the
\* text holds a number with a recognised unit, the default otherwise
RuleSeconds(duration_str) ==
    LET s == Strip(Lower(duration_str))
        P == NumberUnitAt(s)
    IN IF P = {} THEN 300
       ELSE LET p == CHOOSE x \in P : \A y \in P : x <= y
                q == p + DigitRun(s, p)
            IN IntOf(SubSeq(s, p, q - 1)) * UnitSeconds(UnitAt(s, q + WsRun(s, q)))

\* C32: a resolved timer_start has duration_seconds n, 60 n or 3600 n for a
\* duration of a number n and a unit of seconds, minutes or hours, and 300 for a
\* duration that is missing, empty or without a number and a recognised unit.
C32_DurationParsedOrDefault ==
    \A i \in ResolvedTimers :
        /\ "duration_seconds" \in DOMAIN tasks[i].extra
        /\ tasks[i].extra.duration_seconds =
              RuleSeconds(DictGet(tasks[i].extra, "duration", <<>>))

\* the part of it that the code keeps: the texts with a number and a recognised
\* unit, and the texts without any digit
C32_DurationOfUnitOrNoNumber ==
    \A i \in ResolvedTimers :
        LET d == DictGet(tasks[i].extra, "duration", <<>>)
        IN (NumberUnitAt(Strip(Lower(d))) # {} \/ \A k \in 1..Len(d) : d[k] \notin Digits) =>
              (tasks[i].extra.duration_seconds = RuleSeconds(d))

\* a resolved timer of "2 days" that lasts 120 seconds
C32_TwoDaysIsTwoMinutes ==
    \E i \in ResolvedTimers :
        /\ DictGet(tasks[i].extra, "duration", <<>>) = Txt2Days
        /\ tasks[i].extra.duration_seconds = 120

\* ------------------------------------------------------------------ C33

\* the shopping_add tasks that resolve_tasks has resolved
ResolvedShoppingAdds ==
    IF pc = "resolver" THEN {}
    ELSE {i \in 1..Len(tasks) : tasks[i].type = "shopping_add"}

\* positions q..r of s hold a separator word: "and", "und" (any case) or "&",
\* with a whitespace character right before it and right after it
SeparatorWord(s, q, r) ==
    /\ q > 1
    /\ r < Len(s)
    /\ IsSpace(s[q - 1])
    /\ IsSpace(s[r + 1])
    /\ \/ r = q /\ s[q] = "&"
       \/ r = q + 2 /\ Lower(SubSeq(s, q, r)) \in {<<"u", "n", "d">>, <<"a", "n", "d">>}

\* position p of s is a comma or lies in a separator word
IsCut(s, p) ==
    \/ s[p] = ","
    \/ \E q \in 1..p : \E r \in p..Len(s) : SeparatorWord(s, q, r)

\* the pieces of s between its commas and separator words
RulePieces(s) ==
    LET split[p \in 1..(Len(s) + 1)] ==
            IF p > Len(s) THEN << <<>> >>
            ELSE IF IsCut(s, p) THEN << <<>> >> \o split[p + 1]
            ELSE [split[p + 1] EXCEPT ![1] = <<s[p]>> \o @]
    IN split[1]

\* the pieces trimmed, the empty ones dropped, the others capitalised, in order
RuleItems(raw_items) ==
    LET kept == SelectSeq(RulePieces(raw_items), LAMBDA piece : Strip(piece) # <<>>)
    IN [k \in 1..Len(kept) |-> Capitalize(Strip(kept[k]))]

\* C33: a resolved shopping_add is ready_for_execution and its items are the
\* pieces of raw_items between every comma, every whitespace-delimited "and"/"und"
\* and every whitespace-delimited "&", trimmed, without the empty ones,
\* capitalised, in order; empty or whitespace-only raw_items gives no item.
C33_ItemsSplitAtEverySeparator ==
    \A i \in ResolvedShoppingAdds :
        /\ tasks[i].status = "ready_for_execution"
        /\ tasks[i].items = RuleItems(tasks[i].raw_items)

\* the part of it that the code keeps: raw_items in which no two separator words
\* share their whitespace
C33_ItemsOfSeparatedWords ==
    \A i \in ResolvedShoppingAdds :
        /\ tasks[i].status = "ready_for_execution"
        /\ tasks[i].raw_items # TxtKaeseUndUndWein =>
              (tasks[i].items = RuleItems(tasks[i].raw_items))

\* a resolved shopping_add of "Käse und und Wein" with the item "Und wein"
C33_UndWein ==
    \E i \in ResolvedShoppingAdds :
        /\ tasks[i].raw_items = TxtKaeseUndUndWein
        /\ tasks[i].items = << <<"K", "ä", "s", "e">>, <<"U", "n", "d", " ", "w", "e", "i", "n">> >>

\* ------------------------------------------------------------------ C34

\* plan() has returned a task list, and the Resolver has not touched it yet
PlanReturnedTasks ==
    pc = "resolver" /\ "tasks" \in DOMAIN planned

\* the tasks are as post-validation leaves them: an id on every task, "t<k>" at
\* position k unless the LLM wrote one, and a status on every task
IdsAndStatusesFilled ==
    \A k \in 1..Len(tasks) :
        /\ tasks[k].id # None
        /\ tasks[k].id # "t2" => tasks[k].id = TaskIdText(k)
        /\ tasks[k].status \in TaskStatus

\* C34: plan() answers a tasks value that is not a list with a task list, never
\* with a response in its place, and in the list it returns every task has an id
\* ("t<k>" for a task at position k that had none) and a status (pending for a
\* task that had none).
C34_TasksValueCoercedToList ==
    /\ "response" \in DOMAIN planned => planned.response # PlannerApologyProcessing
    /\ PlanReturnedTasks => IdsAndStatusesFilled

\* the part of it that the code keeps: the ids and statuses of a returned list
C34_IdsAndStatusesOfReturnedList ==
    PlanReturnedTasks => IdsAndStatusesFilled

\* plan() has answered a tasks value that is not a list with its apology
C34_NonListAnswered ==
    /\ pc = "done"
    /\ planned = [response |-> PlannerApologyProcessing]
    /\ speech = <<PlannerApologyProcessing>>
    /\ tasks = <<>>

\* ------------------------------------------------------------------ C35

\* the device_control tasks handed to the Executor as ready_for_execution with no
\* selected entity
NothingSelected ==
    {i \in 1..Len(tasks) :
        /\ tasks[i].type = "device_control"
        /\ tasks[i].status = "ready_for_execution"
        /\ tasks[i].selected_entities = <<>>}

\* C35: once execute_tasks has returned, every ready_for_execution device_control
\* task with an empty selected_entities has exactly one result, a failure with the
\* error "No entities selected", and no service call; the report counts these
\* results in failed_operations.
C35_NothingSelectedIsOneFailure ==
    ExecutorReturned =>
        /\ \A i \in NothingSelected :
              /\ Cardinality(ResultsOfTask(i)) = 1
              /\ \A k \in ResultsOfTask(i) :
                    /\ results[k].success = FALSE
                    /\ DictGet(results[k], "error", None) = <<"No entities selected">>
              /\ CallsOfTask(i) = <<>>
        /\ report.failed_operations >= Cardinality(NothingSelected)
        /\ report.failed_operations = Len(results) - report.successful_operations

\* a returned batch of one such task and one successful task: one failure counted
C35_Witness ==
    /\ ExecutorReturned
    /\ Len(tasks) = 2
    /\ NothingSelected = {1}
    /\ calls # <<>>
    /\ report.failed_operations = 1
    /\ report.successful_operations = 1

\* ------------------------------------------------------------------ C36

\* the tasks whose selection failed: the Selector's LLM call raised
SelectionFailed ==
    {i \in 1..Len(tasks) : tasks[i].type = "device_control" /\ tasks[i].status = "failed"}

\* the step is a turn of select() whose LLM call raised
FailedSelectorTurn ==
    /\ pc = "selector"
    /\ llm_calls' = Append(llm_calls, <<"selector", idx>>)
    /\ proposal'.kind = "raise"

\* C36: a turn of select() whose LLM call raised marks its task failed, touches no
\* other task and goes on with the next task inside select(); an exception leaves
\* select() only for an answer that is a JSON array, never for a failed call; with
\* a failed selection in the batch the pipeline is never stuck before the
\* Summariser; and once execute_tasks has returned, the Summariser has been called,
\* every device_control task has had its own Selector LLM call and every task
\* that is ready_for_execution has been executed (it has results, or no items).
C36_SelectorFailureKeepsBatch ==
    /\ [][FailedSelectorTurn =>
            /\ pc' = "selector"
            /\ idx' = idx + 1
            /\ stages' = stages
            /\ tasks'[idx].status = "failed"
            /\ \A j \in 1..Len(tasks) : j # idx => tasks'[j] = tasks[j]]_vars
    /\ [](Raised("selector") \in Range(stages) => proposal.kind = "array")
    /\ []((SelectionFailed # {} /\ pc \in {"selector", "executor", "summariser"})
            => ENABLED Next)
    /\ []((ExecutorReturned /\ SelectionFailed # {}) =>
            /\ Called("summariser") \in Range(stages)
            /\ \A j \in 1..Len(tasks) :
                  /\ tasks[j].type = "device_control" =>
                        CountLLMCalls(<<"selector", j>>) = 1
                  /\ tasks[j].status = "ready_for_execution" =>
                        \/ ResultsOfTask(j) # {}
                        \/ tasks[j].type = "shopping_add" /\ tasks[j].items = <<>>)

\* The selection of the first lamp task failed; the second task had its own LLM
\* call, its lamp was switched, and the Summariser has answered.
C36_Witness ==
    /\ pc = "done"
    /\ Len(tasks) = 2
    /\ SelectionFailed = {1}
    /\ llm_calls = << <<"planner", 0>>, <<"selector", 1>>, <<"selector", 2>>,
                      <<"summariser", 0>> >>
    /\ Len(calls) = 1
    /\ calls[1].task = 2
    /\ calls[1].ok
    /\ Returned("summariser") \in Range(stages)

\* ------------------------------------------------------------------ C37

\* C37: once execute_tasks has returned, a task that the Selector left failed has
\* no service call and no result; the report counts it in total_tasks, and its
\* two counts cover the results of the other tasks only; a batch of that one task
\* is reported with total_tasks 1, no result and both counts 0.
C37_FailedTaskLeavesNoTrace ==
    ExecutorReturned =>
        /\ \A i \in SelectionFailed :
              /\ CallsOfTask(i) = <<>>
              /\ ResultsOfTask(i) = {}
        /\ report.total_tasks = Len(tasks)
        /\ report.successful_operations + report.failed_operations =
              Cardinality({k \in ResultIdx : origin[k].task \notin SelectionFailed})
        /\ (Len(tasks) = 1 /\ SelectionFailed = {1}) =>
              /\ report.total_tasks = 1
              /\ report.results = <<>>
              /\ report.successful_operations = 0
              /\ report.failed_operations = 0

\* execute_tasks has returned the report of a batch whose only task failed in
\* the Selector
C37_Witness ==
    /\ ExecutorReturned
    /\ Len(tasks) = 1
    /\ SelectionFailed = {1}
    /\ <<"selector", 1>> \in Range(llm_calls)
    /\ report.total_tasks = 1
    /\ report.results = <<>>

\* a batch in which a failed task stands before a task whose call was made
C37_WitnessMixed ==
    /\ ExecutorReturned
    /\ Len(tasks) = 2
    /\ SelectionFailed = {1}
    /\ Len(calls) = 1
    /\ report.total_tasks = 2
    /\ report.successful_operations + report.failed_operations = 1

\* ------------------------------------------------------------------ C38

\* the Planner's LLM call was the only LLM call so far, and it raised (exception,
\* timeout, HTTP error, output that is not JSON)
PlannerCallFailed ==
    /\ llm_calls = << <<"planner", 0>> >>
    /\ proposal.kind = "raise"

\* C38: when the Planner's LLM call has failed, async_process has returned with
\* the Planner's apology as the speech, no service call was made, no result was
\* recorded, no task exists and no stage but the Planner was called; and nothing
\* follows.
C38_PlannerFailureHasNoEffect ==
    /\ [](PlannerCallFailed =>
            /\ pc = "done"
            /\ speech = <<PlannerApologyRephrase>>
            /\ calls = <<>>
            /\ results = <<>>
            /\ executed_signatures = {}
            /\ tasks = <<>>
            /\ stages = <<Called("planner"), Returned("planner")>>)
    /\ [][PlannerCallFailed => UNCHANGED vars]_vars

\* the Planner's LLM call has failed and the turn is over
C38_Witness ==
    /\ PlannerCallFailed
    /\ pc = "done"
    /\ speech = <<PlannerApologyRephrase>>
    /\ calls = <<>>

\* ------------------------------------------------------------------ C39

\* the shopping_add tasks that execute_tasks hands to _execute_shopping_add
ShoppingAdds ==
    {i \in 1..Len(tasks) :
        tasks[i].type = "shopping_add" /\ tasks[i].status = "ready_for_execution"}

\* the shopping_list.add_item calls, by position in the log of calls
AddItemCalls ==
    {n \in 1..Len(calls) :
        calls[n].domain = "shopping_list" /\ calls[n].service = "add_item"}

\* C39: once execute_tasks has returned, the calls made for a ready_for_execution
\* shopping_add task are one shopping_list.add_item call per element of its items,
\* in the order of items, a repeated item included every time it stands there; no
\* other add_item call exists; and the signature set of the dedup holds no
\* signature of the shopping list.
C39_AddItemPerElement ==
    ExecutorReturned =>
        /\ \A i \in ShoppingAdds :
              /\ Len(CallsOfTask(i)) = Len(tasks[i].items)
              /\ \A s \in 1..Len(tasks[i].items) :
                    /\ CallsOfTask(i)[s] \in AddItemCalls
                    /\ calls[CallsOfTask(i)[s]].data = [name |-> tasks[i].items[s]]
        /\ \A n \in AddItemCalls : calls[n].task \in ShoppingAdds
        /\ \A sig \in executed_signatures : sig[1] # "shopping_list"

\* "milk, milk" twice in one batch: four add_item calls for Milk
C39_Witness ==
    /\ ExecutorReturned
    /\ Len(tasks) = 2
    /\ ShoppingAdds = {1, 2}
    /\ tasks[1].raw_items = TxtMilkMilk
    /\ tasks[2].raw_items = TxtMilkMilk
    /\ Len(calls) = 4
    /\ \A n \in 1..4 : calls[n].data = [name |-> <<"M", "i", "l", "k">>]
    /\ \A n \in 1..4 : n \in AddItemCalls

\* ------------------------------------------------------------------ C40

\* _call_llm_with_tools has returned or raised (and async_process may have answered)
LoopEnded ==
    tool_loop.pc \in {"returned", "raised", "done"}

\* the loop has returned its text
LoopReturned ==
    tool_loop.pc \in {"returned", "done"} /\ tool_loop.result # <<>>

\* the server asked for tools in every answer (or refused the tools parameter)
KeptRequestingTools ==
    \A n \in 1..Len(tool_loop.responses) :
        tool_loop.responses[n] \in {"tool_calls", "tools_unsupported"}

\* the number of switches to no-tools mode so far: the answers that refused the
\* tools parameter of a request sent while tools were on
Switches ==
    Cardinality({n \in 1..Len(tool_loop.responses) :
                    /\ tool_loop.responses[n] = "tools_unsupported"
                    /\ tool_loop.requests[n].use_tools})

\* C40: _call_llm_with_tools ends (it returns or raises) when every request and
\* tool call returns or raises; the counter and the history are reset only by the
\* switch to no-tools mode, which is never undone and so happens at most once; at
\* most 2 * max_iterations requests are sent; and a run in which the server asks
\* for tools in every answer returns the sentence "I'm sorry, I couldn't complete
\* the task after multiple attempts."
C40_ToolLoopTerminates ==
    /\ <>LoopEnded
    /\ [][/\ ~tool_loop.use_tools => ~tool_loop'.use_tools
          /\ tool_loop'.iteration < tool_loop.iteration =>
                /\ tool_loop.use_tools /\ ~tool_loop'.use_tools
                /\ tool_loop'.iteration = 0
                /\ tool_loop'.current_messages = LoopMessages]_vars
    /\ [](/\ Switches <= 1
          /\ Len(tool_loop.requests) <= 2 * tool_loop.max_iterations
          /\ (LoopReturned /\ KeptRequestingTools) =>
                tool_loop.result = CouldNotComplete)

\* The most requests a call with max_iterations = 3 sends: two turns with tools,
\* the switch in the third, three turns without tools, then the fixed sentence.
C40_Witness ==
    /\ tool_loop.pc = "returned"
    /\ tool_loop.max_iterations = MaxIterations
    /\ Len(tool_loop.requests) = 2 * MaxIterations
    /\ tool_loop.responses[MaxIterations] = "tools_unsupported"
    /\ KeptRequestingTools
    /\ tool_loop.result = CouldNotComplete
    /\ tool_loop.requests[1].tools
    /\ ~tool_loop.requests[2 * MaxIterations].tools
    /\ Len(calls) >= 1

====
